---- MODULE Spec2Model ----
(***************************************************************************)
(* A model of the price-store engine of kelvin21/macd-reversal             *)
(* (src/build_price_db.py, with the second price_data schema of            *)
(* src/macd_reversal_dashboard.py).                                        *)
(*                                                                         *)
(* Conventions                                                             *)
(*  - A price is an exact rational <<n, d>> with d > 0 in lowest terms.    *)
(*    The code computes in IEEE doubles; rounding of the last bit is not   *)
(*    modelled.  <<0, 0>> is SQL NULL / Python None, <<1, 0>> is NaN.      *)
(*  - A calendar date is a day number >= 1; a pandas timestamp is          *)
(*    <<day, time of day>>.  strftime('%Y-%m-%d') keeps the day only.      *)
(*  - The price_data table is a set of rows, each with the rowid SQLite    *)
(*    gives it, so that two rows with equal columns stay two rows.         *)
(*  - CURRENT_TIMESTAMP is the logical clock `clock`, which every written  *)
(*    statement advances by one.                                           *)
(*  - CHUNK is 500 in the code; the model runs the same batching with a    *)
(*    small CHUNK so that inputs of a few bars span several batches.       *)
(***************************************************************************)
EXTENDS Integers, Sequences, FiniteSets, TLC

VARIABLES
    schema,     \* which CREATE TABLE made price_data: its uniqueness key
    store,      \* price_data as committed to the database file
    conn,       \* price_data as the open connection of a running upsert sees it
    clock,      \* CURRENT_TIMESTAMP
    df,         \* the DataFrame handed to upsert_prices_from_df
    dateCol,    \* whether df has a tradingDate/date column
    up,         \* the running (or last) call of upsert_prices_from_df
    prev,       \* the call before it, with the store it left
    ncalls,     \* calls started so far
    detIn,      \* <<price_median, ref_median>> handed to _detect_scale
    detOut,     \* what _detect_scale returned for it
    detFetch,   \* the scale fetch_and_scale detects for the same medians
    refdb,      \* ref_db: the latest market_data close of each ticker, or Null
    today,      \* date('now')
    scaling,    \* tcbs_scaling: its rows
    scan,       \* the last call of scan_and_fix
    scanPrev,   \* the call of scan_and_fix before it
    nscans,     \* calls of scan_and_fix so far
    fetch,      \* the last call of fetch_and_scale
    nfetch,     \* calls of fetch_and_scale so far
    force,      \* the last call of force_rescale_tcbs
    nforce,     \* calls of force_rescale_tcbs so far
    save,       \* the last direct call of save_scale
    removed,    \* the last call of remove_tcbs_data
    bulk,       \* the bulk fetch-and-upsert run
    hist,       \* the histogram series handed to detect_stage
    lookback,   \* its lookback argument
    stage,      \* what detect_stage returned
    trio,       \* <<stageD, stageW, stageM>> of a row of build_overview
    score,      \* the row's Score
    trioPrev,   \* the stages of the row scored before
    scorePrev,  \* its Score
    bars,       \* the rows load_price_range returned to build_overview
    currentTime, \* current_time of build_overview, in seconds of the day
    timeFactor, \* time_factor
    volRatio,   \* vol_ratio of the row
    timePrev,   \* the time of the build_overview call before
    factorPrev, \* its time_factor
    crossHist,  \* hist_series of estimate_days_to_cross
    crossCur,   \* its current_hist argument
    crossDays   \* what it returned

vars == <<schema, store, conn, clock, df, dateCol, up, prev, ncalls, detIn, detOut, detFetch,
          refdb, today, scaling, scan, scanPrev, nscans, fetch, nfetch,
          force, nforce, save, removed, bulk,
          hist, lookback, stage, trio, score, trioPrev, scorePrev,
          bars, currentTime, timeFactor, volRatio, timePrev, factorPrev,
          crossHist, crossCur, crossDays>>

\* The variables a group of operations leaves alone.
upsertVars == <<schema, store, conn, clock, df, dateCol, up, prev, ncalls>>
detectVars == <<detIn, detOut, detFetch>>
scanVars == <<refdb, today, scaling, scan, scanPrev, nscans>>
fetchVars == <<fetch, nfetch>>
adminVars == <<force, nforce, save, removed, bulk>>
stageVars == <<hist, lookback, stage, trio, score, trioPrev, scorePrev>>
viewVars == <<bars, currentTime, timeFactor, volRatio, timePrev, factorPrev,
              crossHist, crossCur, crossDays>>

----------------------------------------------------------------------------
\* Bounds of the model.

MaxBars == 3
CHUNK == 2
MaxCalls == 2
MaxRef == 2
MaxScans == 2
MaxFetchBars == 2
MaxFetch == 2
MaxForce == 3
MaxOps == 3
MaxHist == 5
MaxOld == 2
MaxRecent == 20
MaxCrossBars == 10

----------------------------------------------------------------------------
\* Exact rational arithmetic standing for the code's floats.

Abs(x) == IF x < 0 THEN -x ELSE x

RECURSIVE GCD(_, _)
GCD(a, b) == IF b = 0 THEN a ELSE GCD(b, a % b)

Null == <<0, 0>>
NaN == <<1, 0>>
IsNull(x) == x[2] = 0

Norm(n, d) ==
    LET g == GCD(Abs(n), Abs(d))
        s == IF d < 0 THEN -1 ELSE 1
    IN  <<(s * n) \div g, (s * d) \div g>>

R(n) == <<n, 1>>
RLt(x, y) == x[1] * y[2] < y[1] * x[2]
RLe(x, y) == x[1] * y[2] <= y[1] * x[2]
RDiv(x, y) == Norm(x[1] * y[2], x[2] * y[1])
RMul(x, y) == Norm(x[1] * y[1], x[2] * y[2])
RSub(x, y) == Norm(x[1] * y[2] - y[1] * x[2], x[2] * y[2])
RAdd(x, y) == Norm(x[1] * y[2] + y[1] * x[2], x[2] * y[2])
RAbs(x) == <<Abs(x[1]), x[2]>>

----------------------------------------------------------------------------
\* Values of the upsert's input.

Tickers == {"AAA", "BBB"}
NoTicker == "None"
Sources == {"tcbs", "local_copy"}

\* A row of tcbs_scaling.  detected_at and note are left out: nothing reads them.
ScaleRow(t, s, by) == [ticker |-> t, scale |-> s, detected_by |-> by]

NaT == <<0, 0>>             \* a missing tradingDate
Malformed == <<-1, 0>>      \* a tradingDate pd.to_datetime cannot parse
NullDate == 0               \* what a NaT becomes: NaN, bound as SQL NULL

Bar(td, o, c, v) ==
    [tradingDate |-> td, open |-> o, high |-> c, low |-> o, close |-> c, volume |-> v]

\* Day 1 twice (two times of day), day 2, a missing and a malformed date.
BarSet ==
    { Bar(<<1, 0>>, R(24), R(25), R(100)),
      Bar(<<1, 1>>, NaN, R(26), NaN),
      Bar(<<2, 0>>, Null, <<53, 2>>, <<15, 2>>),
      Bar(NaT, R(24), R(25), R(100)),
      Bar(Malformed, R(24), R(25), R(100)) }

\* The sequences of at most n different elements of S, in every order.
RECURSIVE SeqsUpTo(_, _)
SeqsUpTo(S, n) ==
    IF n = 0 THEN {<<>>}
    ELSE LET shorter == SeqsUpTo(S, n - 1)
             longest == {t \in shorter : Len(t) = n - 1}
         IN  shorter \cup
             {Append(p[1], p[2]) :
                 p \in {q \in longest \X S : \A j \in 1..(n - 1) : q[1][j] # q[2]}}

Frames == SeqsUpTo(BarSet, MaxBars)

----------------------------------------------------------------------------
\* price_data and INSERT OR REPLACE.

\* _safe: NaN and None become None, anything else float(x).
Safe(x) == IF IsNull(x) THEN Null ELSE x

\* _safe_int: NaN and None become 0, anything else int(x), truncating toward 0.
SafeInt(x) ==
    IF IsNull(x) THEN 0
    ELSE IF x[1] >= 0 THEN x[1] \div x[2] ELSE -((-x[1]) \div x[2])

\* pd.to_datetime(...).dt.strftime('%Y-%m-%d') of one value that parses.
ToDate(td) == IF td = NaT THEN NullDate ELSE td[1]

\* The parameter tuple the loop of lines 227-237 builds for one bar.
PrepRow(bar, t, src) ==
    [ticker |-> t, date |-> ToDate(bar.tradingDate),
     open |-> Safe(bar.open), high |-> Safe(bar.high),
     low |-> Safe(bar.low), close |-> Safe(bar.close),
     volume |-> SafeInt(bar.volume), source |-> src]

PrepRows(frame, t, src) == [j \in 1..Len(frame) |-> PrepRow(frame[j], t, src)]

MaxRowId(tbl) ==
    IF tbl = {} THEN 0 ELSE CHOOSE m \in {x.rowid : x \in tbl} : \A x \in tbl : x.rowid <= m

\* The stored rows a new row r conflicts with under the table's uniqueness key.
\* create_db: UNIQUE(ticker, date).  Dashboard: PRIMARY KEY (ticker, date, source).
\* SQL NULLs never conflict.
Conflicts(tbl, r, sch) ==
    {x \in tbl : /\ r.date # NullDate
                 /\ x.ticker = r.ticker
                 /\ x.date = r.date
                 /\ (sch = "ticker_date" \/ x.source = r.source)}

\* create_db declares date NOT NULL; the dashboard's table does not.
NotNullViolated(r, sch) == sch = "ticker_date" /\ r.date = NullDate

\* A plain INSERT that deletes nothing: INSERT OR REPLACE without its REPLACE.
InsertNoReplace(tbl, r, now, sch) ==
    tbl \cup {[rowid |-> 1 + MaxRowId(tbl), ticker |-> r.ticker, date |-> r.date,
               open |-> r.open, high |-> r.high, low |-> r.low,
               close |-> r.close, volume |-> r.volume,
               source |-> r.source, updated_at |-> now]}

\* INSERT OR REPLACE of r at time now: conflicting rows are deleted, r is inserted
\* under a fresh rowid (AUTOINCREMENT under create_db, max+1 otherwise).
InsertOrReplace(tbl, r, now, sch) ==
    LET kept == tbl \ Conflicts(tbl, r, sch)
        id == 1 + MaxRowId(IF sch = "ticker_date" THEN tbl ELSE kept)
    IN  kept \cup {[rowid |-> id, ticker |-> r.ticker, date |-> r.date,
                    open |-> r.open, high |-> r.high, low |-> r.low,
                    close |-> r.close, volume |-> r.volume,
                    source |-> r.source, updated_at |-> now]}

----------------------------------------------------------------------------
\* _detect_scale.

SCALE_CANDIDATES == <<1000, 100, 10, 10000>>
THRESHOLD_RATIO == 5

\* min(SCALE_CANDIDATES) without its key: the smallest candidate, whatever x is.
NearestNoKey(x) == 10

\* min(SCALE_CANDIDATES, key=lambda s: abs(x - s)): the first candidate of the
\* list at the least distance from x.
Nearest(x) ==
    LET dist(k) == RAbs(RSub(x, R(SCALE_CANDIDATES[k])))
        best == CHOOSE k \in 1..Len(SCALE_CANDIDATES) :
                    /\ \A j \in 1..Len(SCALE_CANDIDATES) : RLe(dist(k), dist(j))
                    /\ \A j \in 1..(k - 1) : RLt(dist(k), dist(j))
    IN  SCALE_CANDIDATES[best]

\* abs(x - best) / best < 0.2
Within20(x, best) == RLt(RDiv(RAbs(RSub(x, R(best))), R(best)), <<1, 5>>)

NoScale == [scale |-> 0, op |-> "none"]

\* _detect_scale(price_median, ref_median); (None, None) is NoScale.  A zero
\* price_median with a positive ref_median divides by zero at line 580.
DetectScale(pm, rm) ==
    IF IsNull(rm) \/ RLe(rm, R(0)) THEN NoScale
    ELSE LET ratio == RDiv(pm, rm)
         IN  IF RLt(R(THRESHOLD_RATIO), ratio) /\ Within20(ratio, Nearest(ratio))
                THEN [scale |-> Nearest(ratio), op |-> "divide"]
             ELSE IF RLt(ratio, RDiv(R(1), R(THRESHOLD_RATIO)))
                THEN IF pm[1] = 0
                        THEN [scale |-> 0, op |-> "ZeroDivisionError"]
                     ELSE LET inverse_ratio == RDiv(rm, pm)
                          IN  IF Within20(inverse_ratio, Nearest(inverse_ratio))
                                 THEN [scale |-> Nearest(inverse_ratio), op |-> "multiply"]
                                 ELSE NoScale
             ELSE NoScale

Pending == [scale |-> 0, op |-> "pending"]

\* fetch_and_scale has not run its detection.
FetchPending == 0 - 1

DetectParked == detIn = <<Null, Null>> /\ detOut = Pending /\ detFetch = FetchPending

----------------------------------------------------------------------------
\* scan_and_fix.
\*
\* ref_db holds at most one market_data row per ticker, dated today; refdb[t]
\* is its close, Null when ref_db is missing, has no row for t or a NULL
\* close.  A ticker holds at most one row per date under each kind of source,
\* so ORDER BY date DESC LIMIT 1 has one answer.  The rows scanned carry
\* well-formed dates.

LOOKBACK_DAYS == 60
DATE_TOLERANCE_DAYS == 7
NoSince == 0                \* since_date=None

\* The row ORDER BY date DESC LIMIT 1 returns.
Latest(rows) == CHOOSE x \in rows : \A y \in rows : y.date <= x.date

\* The non-NULL closes of rows, ascending.
RECURSIVE SortedCloses(_)
SortedCloses(rows) ==
    LET some == {x \in rows : ~IsNull(x.close)}
    IN  IF some = {} THEN <<>>
        ELSE LET m == CHOOSE x \in some : \A y \in some : RLe(x.close, y.close)
             IN  <<m.close>> \o SortedCloses(some \ {m})

\* float(pd.Series(closes).median()) if closes else None
Median(rows) ==
    LET c == SortedCloses(rows)
        n == Len(c)
    IN  IF n = 0 THEN Null
        ELSE IF n % 2 = 1 THEN c[(n + 1) \div 2]
        ELSE RDiv(RAdd(c[n \div 2], c[n \div 2 + 1]), R(2))

\* Python truthiness of a float or None.
Truthy(x) == ~IsNull(x) /\ x[1] # 0

InLookback(x, day) == x.date >= day - LOOKBACK_DAYS

NoComparison == [obs |-> Null, ref |-> Null, method |-> "none"]

\* Lines 640-665, given the latest rows and the two medians over the lookback.
CompareDates(tl, ll, tcbs_median, local_median) ==
    IF Abs(tl.date - ll.date) <= DATE_TOLERANCE_DAYS
       THEN [obs |-> tl.close, ref |-> ll.close, method |-> "latest_close"]
    ELSE IF Truthy(tcbs_median) /\ Truthy(local_median) /\ RLt(R(0), local_median)
       THEN [obs |-> tcbs_median, ref |-> local_median, method |-> "median_fallback"]
    ELSE [obs |-> tl.close, ref |-> Null, method |-> "none"]

\* Lines 625-665: the reference taken from the rows of another source.
CompareLocal(tl, tcbs, local, day) ==
    IF local = {} THEN [obs |-> tl.close, ref |-> Null, method |-> "none"]
    ELSE IF IsNull(Latest(local).close) THEN [obs |-> tl.close, ref |-> Null, method |-> "none"]
    ELSE CompareDates(tl, Latest(local),
                      Median({x \in tcbs : InLookback(x, day)}),
                      Median({x \in local : InLookback(x, day)}))

\* Lines 667-681: the reference taken from ref_db when there is none yet.
CompareRefDb(same, r) ==
    IF IsNull(same.ref) /\ ~IsNull(r)
       THEN [obs |-> same.obs, ref |-> r, method |-> "ref_db_latest"]
    ELSE same

\* Lines 615-681, given the rows of the ticker under each kind of source.
CompareRows(tcbs, local, r, day) ==
    IF tcbs = {} THEN NoComparison
    ELSE IF IsNull(Latest(tcbs).close) THEN NoComparison
    ELSE CompareRefDb(CompareLocal(Latest(tcbs), tcbs, local, day), r)

\* The comparison pair of ticker t (lines 615-681): the observed value, the
\* reference value (Null when none was obtained) and the method.
Comparison(tbl, t, ref, day) ==
    CompareRows({x \in tbl : x.ticker = t /\ x.source = "tcbs"},
                {x \in tbl : x.ticker = t /\ x.source # "tcbs"}, ref[t], day)

\* A NULL price turned into 0 by the rescale.
ScalePriceNullToZero(p, scale, op) ==
    IF IsNull(p) THEN R(0)
    ELSE IF op = "divide" THEN RDiv(p, R(scale)) ELSE RMul(p, R(scale))

\* CASE WHEN p IS NOT NULL THEN p / ? (or p * ?) ELSE NULL END
ScalePrice(p, scale, op) ==
    IF IsNull(p) THEN Null
    ELSE IF op = "divide" THEN RDiv(p, R(scale)) ELSE RMul(p, R(scale))

\* The UPDATE without its ticker = ? condition.
FixMatchesAnyTicker(x, t, since) ==
    /\ x.source = "tcbs"
    /\ (since = NoSince \/ x.date >= since)

\* WHERE ticker = ? [AND date >= ?] AND source = 'tcbs'
FixMatches(x, t, since) ==
    /\ x.ticker = t
    /\ x.source = "tcbs"
    /\ (since = NoSince \/ x.date >= since)

\* The UPDATE of lines 694-722, run at time now.
ApplyFix(tbl, t, scale, op, since, now) ==
    {IF FixMatches(x, t, since)
        THEN [x EXCEPT !.open = ScalePrice(@, scale, op),
                       !.high = ScalePrice(@, scale, op),
                       !.low = ScalePrice(@, scale, op),
                       !.close = ScalePrice(@, scale, op),
                       !.updated_at = now]
        ELSE x : x \in tbl}

\* A scan that writes in a dry run too.
WritesAlways(dry) == TRUE

\* if not dry_run
Writes(dry) == ~dry

\* SELECT DISTINCT ticker FROM price_data, in the order the rows are visited.
TickerList(tbl) ==
    LET Held(t) == \E x \in tbl : x.ticker = t
    IN  SelectSeq(<<"AAA", "BBB">>, Held)

\* Lines 689-723: the fix recorded and, outside a dry run, applied.
ScanFix(acc, t, cmp, det, dry, since) ==
    IF det.op = "ZeroDivisionError" THEN [acc EXCEPT !.raised = TRUE]
    ELSE IF det.op = "none" THEN acc
    ELSE IF Writes(dry)
        THEN [tbl |-> ApplyFix(acc.tbl, t, det.scale, det.op, since, acc.now),
              fixes |-> Append(acc.fixes, <<t, cmp.obs, cmp.ref, det.scale, det.op, cmp.method>>),
              raised |-> FALSE, now |-> acc.now + 1]
    ELSE [acc EXCEPT
            !.fixes = Append(@, <<t, cmp.obs, cmp.ref, det.scale, det.op, cmp.method>>)]

\* Lines 683-687: skip without a positive reference, else _detect_scale.
ScanDetect(acc, t, cmp, dry, since) ==
    IF IsNull(cmp.obs) \/ IsNull(cmp.ref) THEN acc
    ELSE IF RLe(cmp.ref, R(0)) THEN acc
    ELSE ScanFix(acc, t, cmp, DetectScale(cmp.obs, cmp.ref), dry, since)

\* One turn of the loop of line 614 for ticker t.  acc holds the table, the
\* fixes so far, the clock, and whether _detect_scale raised.
ScanTicker(acc, t, ref, day, dry, since) ==
    ScanDetect(acc, t, Comparison(acc.tbl, t, ref, day), dry, since)

RECURSIVE ScanFrom(_, _, _, _, _, _, _)
ScanFrom(order, k, acc, ref, day, dry, since) ==
    IF k > Len(order) \/ acc.raised THEN acc
    ELSE ScanFrom(order, k + 1, ScanTicker(acc, order[k], ref, day, dry, since),
                  ref, day, dry, since)

\* scan_and_fix(db_path, ref_db, dry_run, since_date) on table tbl at time now.
ScanAndFix(tbl, ref, day, dry, since, now) ==
    ScanFrom(TickerList(tbl), 1,
             [tbl |-> tbl, fixes |-> <<>>, raised |-> FALSE, now |-> now],
             ref, day, dry, since)

NoScan ==
    [dry |-> TRUE, since |-> NoSince, fixes |-> <<>>, raised |-> FALSE,
     at |-> 0, pre |-> {}, preScaling |-> {}]

ScanParked ==
    /\ refdb = [t \in Tickers |-> Null]
    /\ today = LOOKBACK_DAYS
    /\ scaling = {}
    /\ scan = NoScan
    /\ scanPrev = NoScan
    /\ nscans = 0

----------------------------------------------------------------------------
\* fetch_and_scale and the scale cache.

\* str.upper() on the symbols a caller may pass.
Upper(t) ==
    CASE t = "aaa" -> "AAA"
      [] t = "vnindex" -> "VNINDEX"
      [] OTHER -> t

\* An exemption that matches the symbol as passed.
ExemptAsPassed(t) == t = "VNINDEX"

\* Lines 294-297: the index ticker is excluded from every scaling.
Exempt(t) == Upper(t) = "VNINDEX"

\* A lookup that never finds a saved scale.
GetSavedScaleNone(sc, t) == 0

\* get_saved_scale: the scale of the row fetchone() returns for
\* ticker.upper(), 0 for None.
GetSavedScale(sc, t) ==
    IF \E x \in sc : x.ticker = Upper(t)
       THEN (CHOOSE x \in sc : x.ticker = Upper(t)).scale
       ELSE 0

\* A plain INSERT, without the ON CONFLICT clause.
SaveScaleInsert(sc, t, scale, by) == sc \cup {ScaleRow(Upper(t), scale, by)}

\* save_scale: INSERT ... ON CONFLICT(ticker) DO UPDATE, for ticker.upper().
SaveScale(sc, t, scale, by) ==
    IF \E x \in sc : x.ticker = Upper(t)
       THEN {IF x.ticker = Upper(t) THEN ScaleRow(x.ticker, scale, by) ELSE x : x \in sc}
       ELSE sc \cup {ScaleRow(Upper(t), scale, by)}

\* pd.to_numeric(x, errors='coerce') / s
DivNum(p, s) == IF IsNull(p) THEN NaN ELSE RDiv(p, R(s))

\* Lines 304-306 and 338-340: the four price columns divided by s.
DivideOHLC(frame, s) ==
    [i \in 1..Len(frame) |->
        [frame[i] EXCEPT !.open = DivNum(@, s), !.high = DivNum(@, s),
                         !.low = DivNum(@, s), !.close = DivNum(@, s)]]

\* The non-missing closes of a frame at the indexes idx, ascending.
RECURSIVE SortedAt(_, _)
SortedAt(frame, idx) ==
    IF idx = {} THEN <<>>
    ELSE LET m == CHOOSE i \in idx : \A j \in idx : RLe(frame[i].close, frame[j].close)
         IN  <<frame[m].close>> \o SortedAt(frame, idx \ {m})

\* pd.to_numeric(df['close'], errors='coerce').median(skipna=True)
FrameMedian(frame) ==
    LET c == SortedAt(frame, {i \in 1..Len(frame) : ~IsNull(frame[i].close)})
        n == Len(c)
    IN  IF n = 0 THEN NaN
        ELSE IF n % 2 = 1 THEN c[(n + 1) \div 2]
        ELSE RDiv(RAdd(c[n \div 2], c[n \div 2 + 1]), R(2))

\* _get_local_db_median: the median close of the ticker, as passed, over the
\* lookback in price_data.db (every source), else in ref_db's market_data.
LocalDbMedian(t, tbl, ref, day) ==
    LET rows == {x \in tbl : x.ticker = t /\ InLookback(x, day) /\ ~IsNull(x.close)}
    IN  IF rows # {} THEN Median(rows)
        ELSE IF t \in DOMAIN ref THEN ref[t]
        ELSE Null

\* A search that takes the first candidate within 30% of ratio.
RECURSIVE FirstCandidateWide(_, _)
FirstCandidateWide(ratio, k) ==
    IF k > Len(SCALE_CANDIDATES) THEN 0
    ELSE IF RLt(RAbs(RSub(ratio, R(SCALE_CANDIDATES[k]))),
                RMul(R(SCALE_CANDIDATES[k]), <<3, 10>>))
        THEN SCALE_CANDIDATES[k]
    ELSE FirstCandidateWide(ratio, k + 1)

\* Lines 327-330: the first candidate, in list order, within 20% of ratio.
RECURSIVE FirstCandidate(_, _)
FirstCandidate(ratio, k) ==
    IF k > Len(SCALE_CANDIDATES) THEN 0
    ELSE IF RLt(RAbs(RSub(ratio, R(SCALE_CANDIDATES[k]))),
                RMul(R(SCALE_CANDIDATES[k]), <<1, 5>>))
        THEN SCALE_CANDIDATES[k]
    ELSE FirstCandidate(ratio, k + 1)

\* Lines 313-334: the scale to apply without a saved one, 0 for None.
ScaleToApply(tcbs_median, db_median) ==
    IF IsNull(tcbs_median) THEN 0
    ELSE IF ~IsNull(db_median) /\ RLt(R(0), db_median)
       THEN IF RLt(R(THRESHOLD_RATIO), RDiv(tcbs_median, db_median))
               THEN FirstCandidate(RDiv(tcbs_median, db_median), 1)
               ELSE 0
    ELSE IF RLt(R(1000), tcbs_median) THEN 1000
    ELSE 0

\* fetch_and_scale(ticker) when the API returned frame: the frame returned,
\* the scale cache afterwards, and which steps ran.
FetchAndScale(t, frame, sc, tbl, ref, day) ==
    LET saved == GetSavedScale(sc, t)
        tcbs_median == FrameMedian(frame)
        db_median == LocalDbMedian(t, tbl, ref, day)
        scale_to_apply == ScaleToApply(tcbs_median, db_median)
        plain == [out |-> frame, sc |-> sc, read |-> FALSE, hit |-> FALSE,
                  detected |-> FALSE, looked |-> FALSE, saved |-> FALSE]
    IN  IF frame = <<>> THEN plain
        ELSE IF Exempt(t) THEN plain
        ELSE IF saved # 0
            THEN [plain EXCEPT !.out = DivideOHLC(frame, saved), !.read = TRUE, !.hit = TRUE]
        ELSE IF ~IsNull(tcbs_median) /\ RLe(tcbs_median, R(0))
            THEN [plain EXCEPT !.read = TRUE, !.detected = TRUE]
        ELSE IF scale_to_apply # 0
            THEN [plain EXCEPT !.out = DivideOHLC(frame, scale_to_apply),
                               !.sc = SaveScale(sc, t, scale_to_apply, "autoscale"),
                               !.read = TRUE, !.detected = TRUE, !.looked = TRUE,
                               !.saved = TRUE]
        ELSE [plain EXCEPT !.read = TRUE, !.detected = TRUE, !.looked = TRUE]

StageParked ==
    /\ hist = <<>>
    /\ lookback = 0
    /\ stage = "pending"
    /\ trio = <<"N/A", "N/A", "N/A">>
    /\ score = 0
    /\ trioPrev = <<>>
    /\ scorePrev = 0

\* No overview has been built and no crossing estimated.
NoTime == 0 - 1
NoDays == <<0 - 1, 1>>

ViewParked ==
    /\ bars = <<>>
    /\ currentTime = NoTime
    /\ timeFactor = Null
    /\ volRatio = Null
    /\ timePrev = NoTime
    /\ factorPrev = Null
    /\ crossHist = <<>>
    /\ crossCur = Null
    /\ crossDays = NoDays

NoForce ==
    [scale |-> 0, since |-> NoSince, tickers |-> {}, ret |-> 0, k |-> 0,
     pre |-> {}, orig |-> {}]

NoSave == [n |-> 0, ticker |-> NoTicker, scale |-> 0, pre |-> {}]

NoRemove == [n |-> 0, since |-> NoSince, tickers |-> {}, ret |-> 0, pre |-> {}]

NoBulk ==
    [mode |-> "none", queue |-> <<>>, pos |-> 1, st |-> "idle", attempted |-> {},
     failed |-> {}, processed |-> 0, trace |-> <<>>]

NoFetch ==
    [ticker |-> NoTicker, raw |-> <<>>, out |-> <<>>, read |-> FALSE, hit |-> FALSE,
     detected |-> FALSE, looked |-> FALSE, saved |-> FALSE,
     preScaling |-> {}]

FetchParked ==
    /\ fetch = NoFetch
    /\ nfetch = 0
    /\ force = NoForce
    /\ nforce = 0
    /\ save = NoSave
    /\ removed = NoRemove
    /\ bulk = NoBulk
    /\ StageParked

----------------------------------------------------------------------------
\* force_rescale_tcbs and remove_tcbs_data.

\* [t.strip().upper() for t in tickers if t.strip()]
TickersList(tickers) == {Upper(t) : t \in tickers}

\* A WHERE clause without source = 'tcbs'.
TcbsWhereAnySource(x, since, tickers) ==
    /\ (tickers = {} \/ x.ticker \in TickersList(tickers))
    /\ (since = NoSince \/ x.date >= since)

\* source = 'tcbs' [AND ticker IN (...)] [AND date >= ?]; an empty tickers
\* argument and since_date=None add no condition.
TcbsWhere(x, since, tickers) ==
    /\ x.source = "tcbs"
    /\ (tickers = {} \/ x.ticker \in TickersList(tickers))
    /\ (since = NoSince \/ x.date >= since)

\* force_rescale_tcbs(db_path, scale, since_date, tickers) at time now: the
\* table afterwards and the value returned.
ForceRescale(tbl, scale, since, tickers, now) ==
    IF {x \in tbl : TcbsWhere(x, since, tickers)} = {}
       THEN [tbl |-> tbl, ret |-> 0]
       ELSE [tbl |-> {IF TcbsWhere(x, since, tickers)
                         THEN [x EXCEPT !.open = ScalePrice(@, scale, "divide"),
                                        !.high = ScalePrice(@, scale, "divide"),
                                        !.low = ScalePrice(@, scale, "divide"),
                                        !.close = ScalePrice(@, scale, "divide"),
                                        !.updated_at = now]
                         ELSE x : x \in tbl},
             ret |-> Cardinality({x \in tbl : TcbsWhere(x, since, tickers)})]

\* remove_tcbs_data(db_path, since_date, tickers): the table afterwards and
\* the value returned.
RemoveTcbs(tbl, since, tickers) ==
    [tbl |-> {x \in tbl : ~TcbsWhere(x, since, tickers)},
     ret |-> Cardinality({x \in tbl : TcbsWhere(x, since, tickers)})]

----------------------------------------------------------------------------
\* upsert_prices_from_df, statement by statement.

Min(a, b) == IF a < b THEN a ELSE b

\* A commit after every row instead of after every CHUNK rows.
BatchEndPerRow(i, n) == Min(i + 1, n)

\* Where the batch rows[i:i+CHUNK] ends, counted in rows.
BatchEnd(i, n) == Min(i + CHUNK, n)

\* pd.to_datetime raises on a value it cannot parse.
ToDatetimeRaises(frame) == \E j \in 1..Len(frame) : frame[j].tradingDate = Malformed

Idle(store0) ==
    [st |-> "idle", ticker |-> NoTicker, source |-> "", rows |-> <<>>,
     i |-> 0, done |-> 0, ncommits |-> 0, wt |-> <<>>, pre |-> store0, ret |-> 0]

\* A call that ends before its first INSERT: df.empty returns 0 (line 206), a
\* missing date column, an unparsable date or a missing ticker raise ValueError.
EarlyExit(t, src) ==
    [Idle(store) EXCEPT !.ticker = t, !.source = src,
        !.st = IF df = <<>> THEN "returned" ELSE "raised"]

\* The call up to the start of its batch loop (lines 205-238).
UpsertBegin(t, src) ==
    /\ up.st # "running"
    /\ ncalls < MaxCalls
    /\ ncalls' = ncalls + 1
    /\ prev' = [st |-> up.st, ticker |-> up.ticker, source |-> up.source, post |-> store]
    /\ IF df = <<>> \/ ~dateCol \/ ToDatetimeRaises(df) \/ t = NoTicker
          THEN up' = EarlyExit(t, src)
          ELSE up' = [Idle(store) EXCEPT !.ticker = t, !.source = src,
                         !.st = "running", !.rows = PrepRows(df, t, src)]
    /\ conn' = store
    /\ UNCHANGED <<schema, store, clock, df, dateCol>>
    /\ UNCHANGED <<detectVars, scanVars, fetchVars, adminVars, stageVars, viewVars>>

\* One INSERT OR REPLACE of cursor.executemany (line 241).  A NULL date under
\* create_db's NOT NULL raises IntegrityError: the call ends without a commit
\* and the connection's open transaction is rolled back.
UpsertExecRow ==
    /\ up.st = "running"
    /\ up.i < BatchEnd(up.done, Len(up.rows))
    /\ LET r == up.rows[up.i + 1]
       IN  IF NotNullViolated(r, schema)
              THEN /\ up' = [up EXCEPT !.st = "raised"]
                   /\ conn' = store
              ELSE /\ up' = [up EXCEPT !.i = @ + 1, !.wt = Append(@, clock)]
                   /\ conn' = InsertOrReplace(conn, r, clock, schema)
    /\ clock' = clock + 1
    /\ UNCHANGED <<schema, store, df, dateCol, prev, ncalls>>
    /\ UNCHANGED <<detectVars, scanVars, fetchVars, adminVars, stageVars, viewVars>>

\* conn.commit() after the batch (lines 242-243).
UpsertCommit ==
    /\ up.st = "running"
    /\ up.i > up.done
    /\ up.i = BatchEnd(up.done, Len(up.rows))
    /\ store' = conn
    /\ up' = [up EXCEPT !.done = up.i, !.ncommits = @ + 1, !.ret = up.i]
    /\ UNCHANGED <<schema, conn, clock, df, dateCol, prev, ncalls>>
    /\ UNCHANGED <<detectVars, scanVars, fetchVars, adminVars, stageVars, viewVars>>

\* conn.close(); return total (lines 245-246).
UpsertReturn ==
    /\ up.st = "running"
    /\ up.done = Len(up.rows)
    /\ up' = [up EXCEPT !.st = "returned"]
    /\ UNCHANGED <<schema, store, conn, clock, df, dateCol, prev, ncalls>>
    /\ UNCHANGED <<detectVars, scanVars, fetchVars, adminVars, stageVars, viewVars>>

\* KeyboardInterrupt (or the process dying) anywhere in the loop: what the
\* connection has not committed is rolled back.
UpsertInterrupt ==
    /\ up.st = "running"
    /\ up' = [up EXCEPT !.st = "interrupted"]
    /\ conn' = store
    /\ UNCHANGED <<schema, store, clock, df, dateCol, prev, ncalls>>
    /\ UNCHANGED <<detectVars, scanVars, fetchVars, adminVars, stageVars, viewVars>>

StoredRow(id, t, d, src, o, c, v, at) ==
    [rowid |-> id, ticker |-> t, date |-> d, open |-> o, high |-> c, low |-> o,
     close |-> c, volume |-> v, source |-> src, updated_at |-> at]

\* Stores an upsert may find: empty, or day 1 already held under either source.
UpsertInitStores ==
    { {},
      {StoredRow(1, "AAA", 1, "local_copy", R(24), <<49, 2>>, 90, 0)},
      {StoredRow(1, "AAA", 1, "tcbs", R(24000), R(25000), 90, 0)} }

InitUpsert ==
    /\ schema \in {"ticker_date", "ticker_date_source"}
    /\ store \in UpsertInitStores
    /\ conn = store
    /\ clock = 1
    /\ df \in Frames
    /\ dateCol \in BOOLEAN
    /\ up = Idle(store)
    /\ prev = [st |-> "idle", ticker |-> NoTicker, source |-> "", post |-> store]
    /\ ncalls = 0
    /\ DetectParked
    /\ ViewParked
    /\ ScanParked
    /\ FetchParked

NextUpsert ==
    \/ \E t \in {"AAA", NoTicker}, src \in Sources : UpsertBegin(t, src)
    \/ UpsertExecRow
    \/ UpsertCommit
    \/ UpsertReturn
    \/ UpsertInterrupt

SpecUpsert == InitUpsert /\ [][NextUpsert]_vars

----------------------------------------------------------------------------
\* Claims about upsert_prices_from_df (specification SpecUpsert).

\* price_data after the first m rows of a call were written at the times wt.
RECURSIVE Applied(_, _, _, _, _)
Applied(tbl, rows, wt, m, sch) ==
    IF m = 0 THEN tbl
    ELSE InsertOrReplace(Applied(tbl, rows, wt, m - 1, sch), rows[m], wt[m], sch)

SameKey(x, r) == x.ticker = r.ticker /\ x.date = r.date /\ x.source = r.source

\* The last row of the input with the date of row j: the one whose write stays.
LastWithDate(rows, j) ==
    CHOOSE m \in j..Len(rows) :
        /\ rows[m].date = rows[j].date
        /\ \A k \in (m + 1)..Len(rows) : rows[k].date # rows[j].date

Rerun ==
    /\ up.st = "returned"
    /\ prev.st = "returned"
    /\ up.ticker = prev.ticker
    /\ up.source = prev.source
    /\ up.pre = prev.post

C2_OneRowPerKeyAndSourcesCoexist ==
    /\ \A x, y \in store :
          (SameKey(x, y) /\ x.date # NullDate) => x = y
    /\ up.st = "returned" =>
          \A x \in up.pre : x.source # up.source => x \in store

\* C3: at every point of a call, also after it raised or was interrupted, the
\* committed price_data is the table the call found with exactly the rows of its
\* first ncommits batches of CHUNK rows written to it: nothing of a later batch
\* is visible and nothing of a committed batch is lost.
C3_BatchAtomicity ==
    up.st # "idle" =>
        LET m == Min(up.ncommits * CHUNK, Len(up.rows))
        IN  /\ m <= Len(up.wt)
            /\ store = Applied(up.pre, up.rows, up.wt, m, schema)

\* A call interrupted inside its second batch, after the first was committed.
C3_Witness ==
    /\ up.st = "interrupted"
    /\ up.ncommits = 1
    /\ up.i > up.done
    /\ store # up.pre

BadDates(frame) ==
    \E j \in 1..Len(frame) : frame[j].tradingDate \in {NaT, Malformed}

\* C4: a call whose frame has a bar with a missing or malformed date, or no
\* date column, writes nothing and does not return normally.
C4_FailFastOnDates ==
    (up.st # "idle" /\ df # <<>> /\ (BadDates(df) \/ ~dateCol)) =>
        /\ store = up.pre
        /\ up.st # "returned"

----------------------------------------------------------------------------
\* _detect_scale on its own (specification SpecDetect).

CandSet == {SCALE_CANDIDATES[k] : k \in 1..Len(SCALE_CANDIDATES)}

\* Reference medians: 25, 12.5, 50, ... and the values line 567 turns away.
PosRefs == {Norm(25 * n, d) : n \in 1..MaxRef, d \in {1, 2}}
RefValues == PosRefs \cup {Null, R(0), R(-25)}

\* price_median / ref_median: the candidates, the 5 and 1/5 thresholds, the
\* edges of each candidate's 20% band, and the midpoints between candidates.
Ratios ==
    {R(1), R(2), R(5), <<26, 5>>, R(8), <<81, 10>>, R(10), <<119, 10>>, R(12),
     R(55), R(80), R(81), R(100), R(119), R(120), R(550), R(800), R(801),
     R(1000), R(1199), R(1200), R(5500), R(8000), R(8001), R(10000), R(11999),
     R(12000)}

PriceValues ==
    {RMul(r, k) : r \in PosRefs, k \in Ratios}
        \cup {RDiv(r, k) : r \in PosRefs, k \in Ratios}
        \cup {R(0), R(-25)}

Detect ==
    /\ detOut = Pending
    /\ detOut' = DetectScale(detIn[1], detIn[2])
    /\ UNCHANGED <<detIn, detFetch, upsertVars, scanVars, fetchVars, adminVars, stageVars, viewVars>>

UpsertParked ==
    /\ schema = "ticker_date"
    /\ store = {}
    /\ conn = {}
    /\ clock = 1
    /\ df = <<>>
    /\ dateCol = TRUE
    /\ up = Idle({})
    /\ prev = [st |-> "idle", ticker |-> NoTicker, source |-> "", post |-> {}]
    /\ ncalls = 0

InitDetect ==
    /\ ViewParked
    /\ detIn \in PriceValues \X RefValues
    /\ detOut = Pending
    /\ detFetch = FetchPending
    /\ UpsertParked
    /\ ScanParked
    /\ FetchParked

NextDetect == Detect

SpecDetect == InitDetect /\ [][NextDetect]_vars

\* C5: for a positive ref_median r and a candidate c, _detect_scale(r*c, r) is
\* (c, 'divide'), _detect_scale(r/c, r) is (c, 'multiply') and
\* _detect_scale(r, r) is (None, None).
C5_DetectsExactMultiples ==
    (detOut # Pending /\ ~IsNull(detIn[2]) /\ RLt(R(0), detIn[2])) =>
        /\ \A c \in CandSet :
              /\ RDiv(detIn[1], R(c)) = detIn[2] => detOut = [scale |-> c, op |-> "divide"]
              /\ detIn[1] = RDiv(detIn[2], R(c)) => detOut = [scale |-> c, op |-> "multiply"]
        /\ detIn[1] = detIn[2] => detOut = NoScale

\* Reference 25 and fetched median 25000 gave (1000, 'divide').
C5_Witness ==
    /\ detIn = <<R(25000), R(25)>>
    /\ detOut = [scale |-> 1000, op |-> "divide"]

IsNearest(x, c) ==
    \A s \in CandSet : RLe(RAbs(RSub(x, R(c))), RAbs(RSub(x, R(s))))

Passes20(x, c) == RLt(RMul(R(5), RAbs(RSub(x, R(c)))), R(c))

DivideDue(pm, rm, c) ==
    /\ ~IsNull(rm) /\ RLt(R(0), rm)
    /\ RLt(R(5), RDiv(pm, rm))
    /\ IsNearest(RDiv(pm, rm), c)
    /\ Passes20(RDiv(pm, rm), c)

MultiplyDue(pm, rm, c) ==
    /\ ~IsNull(rm) /\ RLt(R(0), rm)
    /\ RLt(RDiv(pm, rm), <<1, 5>>)
    /\ pm[1] # 0
    /\ IsNearest(RDiv(rm, pm), c)
    /\ Passes20(RDiv(rm, pm), c)

\* C6: _detect_scale returns (c, 'divide') exactly when ratio > 5 and c is the
\* nearest candidate and within 20% of the ratio, (c, 'multiply') exactly when
\* ratio < 1/5 and c is the nearest candidate to the inverse ratio and within
\* 20% of it, and (None, None) for every other input.
C6_AcceptanceRule ==
    detOut # Pending =>
        /\ \A c \in CandSet :
              /\ detOut = [scale |-> c, op |-> "divide"] <=> DivideDue(detIn[1], detIn[2], c)
              /\ detOut = [scale |-> c, op |-> "multiply"] <=> MultiplyDue(detIn[1], detIn[2], c)
        /\ (\A c \in CandSet : ~DivideDue(detIn[1], detIn[2], c)
                               /\ ~MultiplyDue(detIn[1], detIn[2], c))
              => detOut = NoScale
----------------------------------------------------------------------------
\* scan_and_fix over stores holding both sources.

Today0 == LOOKBACK_DAYS + 40

ScanRow(id, t, d, src, o, c) == StoredRow(id, t, d, src, o, c, 90, 0)

\* tcbs rows a ticker may hold; ids are b+1..b+3.
TcbsSeries(t, b) ==
    { {},
      {ScanRow(b + 1, t, Today0, "tcbs", R(24000), R(25000))},
      {ScanRow(b + 1, t, Today0 - 10, "tcbs", R(23000), R(24000)),
       ScanRow(b + 2, t, Today0 - 3, "tcbs", Null, R(24000)),
       ScanRow(b + 3, t, Today0, "tcbs", R(24000), R(25000))},
      {ScanRow(b + 1, t, Today0, "tcbs", R(24), R(25))},
      {ScanRow(b + 1, t, Today0, "tcbs", R(24000), Null)},
      {ScanRow(b + 1, t, Today0, "tcbs", R(0), R(0))},
      {ScanRow(b + 1, t, Today0, "tcbs", <<1, 50>>, <<1, 40>>)} }

\* rows of another source a ticker may hold; ids are b+4..b+5.
LocalSeries(t, b) ==
    { {},
      {ScanRow(b + 4, t, Today0 - 2, "local_copy", R(24), R(25))},
      {ScanRow(b + 4, t, Today0 - 50, "local_copy", R(24), R(25))},
      {ScanRow(b + 4, t, Today0 - 90, "local_copy", R(24), R(25))},
      {ScanRow(b + 4, t, Today0 - 2, "local_copy", R(24), Null)},
      {ScanRow(b + 4, t, Today0 - 2, "local_copy", R(0), R(0))},
      {ScanRow(b + 4, t, Today0 - 50, "local_copy", R(23), R(24)),
       ScanRow(b + 5, t, Today0 - 45, "local_copy", R(25), R(26))},
      {ScanRow(b + 4, t, Today0 - 20, "local_copy", R(24), R(25)),
       ScanRow(b + 5, t, Today0 - 2, "local_copy", R(24), Null)} }

\* BBB holds a recent local close of 25 and no tcbs row, a scaled one or a zero one.
LocalBBB == {ScanRow(9, "BBB", Today0 - 2, "local_copy", R(24), R(25))}

StoresBBB ==
    { LocalBBB,
      LocalBBB \cup {ScanRow(6, "BBB", Today0, "tcbs", R(24000), R(25000))},
      LocalBBB \cup {ScanRow(6, "BBB", Today0, "tcbs", R(0), R(0))} }

StoresAAA == {a \cup l : a \in TcbsSeries("AAA", 0), l \in LocalSeries("AAA", 0)}

ScanInitStores == {a \cup b : a \in StoresAAA, b \in StoresBBB}

Sinces == {NoSince, Today0 - 5, Today0 + 1}

ScanAndFixCall(dry, since) ==
    /\ nscans < MaxScans
    /\ LET r == ScanAndFix(store, refdb, today, dry, since, clock)
       IN  /\ store' = r.tbl
           /\ conn' = r.tbl
           /\ clock' = r.now
           /\ scan' = [dry |-> dry, since |-> since, fixes |-> r.fixes,
                       raised |-> r.raised, at |-> clock, pre |-> store,
                       preScaling |-> scaling]
    /\ scanPrev' = scan
    /\ nscans' = nscans + 1
    /\ UNCHANGED <<schema, df, dateCol, up, prev, ncalls, detectVars, refdb, today, scaling,
                   fetchVars, adminVars, stageVars, viewVars>>

InitScan ==
    /\ schema = "ticker_date_source"
    /\ store \in ScanInitStores
    /\ conn = store
    /\ clock = 1
    /\ df = <<>>
    /\ dateCol = TRUE
    /\ up = Idle(store)
    /\ prev = [st |-> "idle", ticker |-> NoTicker, source |-> "", post |-> {}]
    /\ ncalls = 0
    /\ DetectParked
    /\ ViewParked
    /\ refdb \in {[t \in Tickers |-> IF t = "AAA" THEN c ELSE Null] : c \in {Null, R(25)}}
    /\ today = Today0
    /\ scaling = {ScaleRow("AAA", 1000, "autoscale")}
    /\ scan = NoScan
    /\ scanPrev = NoScan
    /\ nscans = 0
    /\ FetchParked

NextScan == \E dry \in BOOLEAN, since \in Sinces : ScanAndFixCall(dry, since)

SpecScan == InitScan /\ [][NextScan]_vars

\* C7: a scan_and_fix call with dry_run=True leaves every price_data row
\* (updated_at included) and every ScaleRecord as it found them.
C7_DryRunModifiesNothing ==
    (nscans >= 1 /\ scan.dry) => (store = scan.pre /\ scaling = scan.preScaling)

C7_Witness ==
    nscans >= 1 /\ scan.dry /\ Len(scan.fixes) >= 1 /\ store # {}

\* C8: from the same store and reference data, the run with dry_run=False
\* reports the fixes the run with dry_run=True reported, and every fix is
\* what detection gives on the store the scan started from: a correction of
\* one ticker does not change what is detected for a later one.
C8_PreviewEqualsApplied ==
    /\ (nscans >= 2 /\ scanPrev.dry /\ ~scan.dry /\ scan.pre = scanPrev.pre)
           => (scan.fixes = scanPrev.fixes /\ scan.raised = scanPrev.raised)
    /\ nscans >= 1 =>
           \A k \in 1..Len(scan.fixes) :
               LET f == scan.fixes[k]
                   cmp == Comparison(scan.pre, f[1], refdb, today)
                   det == DetectScale(cmp.obs, cmp.ref)
               IN  f = <<f[1], cmp.obs, cmp.ref, det.scale, det.op, cmp.method>>

C8_Witness ==
    /\ nscans >= 2 /\ scanPrev.dry /\ ~scan.dry /\ scan.pre = scanPrev.pre
    /\ Len(scan.fixes) >= 2
    /\ store # scan.pre

ScaledAs(q, p, scale, op) ==
    IF IsNull(p) THEN IsNull(q)
    ELSE /\ ~IsNull(q)
         /\ op = "divide" => q = RDiv(p, R(scale))
         /\ op = "multiply" => q = RMul(p, R(scale))

FixesOf(t) == {k \in 1..Len(scan.fixes) : scan.fixes[k][1] = t}

Targeted(x) ==
    /\ FixesOf(x.ticker) # {}
    /\ x.source = "tcbs"
    /\ (scan.since = NoSince \/ x.date >= scan.since)

\* C9: a scan_and_fix call with dry_run=False changes, for each ticker it
\* detected, only open, high, low, close and updated_at of the 'tcbs' rows
\* dated on or after since_date (all of them without since_date); a null
\* price stays null; every other row and column is as before.
C9_ApplyChangesOnlyTargetRows ==
    (nscans >= 1 /\ ~scan.dry) =>
        /\ Cardinality(store) = Cardinality(scan.pre)
        /\ \A x \in scan.pre : \E y \in store :
            /\ y.rowid = x.rowid
            /\ IF Targeted(x)
                  THEN \E k \in FixesOf(x.ticker) :
                        LET s == scan.fixes[k][4]
                            op == scan.fixes[k][5]
                        IN  /\ ScaledAs(y.open, x.open, s, op)
                            /\ ScaledAs(y.high, x.high, s, op)
                            /\ ScaledAs(y.low, x.low, s, op)
                            /\ ScaledAs(y.close, x.close, s, op)
                            /\ y.updated_at >= scan.at
                            /\ y = [x EXCEPT !.open = y.open, !.high = y.high,
                                             !.low = y.low, !.close = y.close,
                                             !.updated_at = y.updated_at]
                  ELSE y = x

C9_Witness ==
    /\ nscans >= 1 /\ ~scan.dry /\ scan.since # NoSince
    /\ \E x \in scan.pre : Targeted(x) /\ IsNull(x.open) /\ ~IsNull(x.close)
    /\ \E x \in scan.pre : FixesOf(x.ticker) # {} /\ x.source = "tcbs" /\ ~Targeted(x)
    /\ \E x \in scan.pre : FixesOf(x.ticker) # {} /\ x.source # "tcbs"
    /\ \E x \in scan.pre : FixesOf(x.ticker) = {} /\ x.source = "tcbs"

----------------------------------------------------------------------------
\* fetch_and_scale over what the API may return.

FetchBarSet ==
    { Bar(<<1, 0>>, R(24000), R(25000), R(100)),
      Bar(<<2, 0>>, NaN, R(25), R(100)),
      Bar(<<3, 0>>, R(2400), R(2500), R(100)),
      Bar(<<4, 0>>, R(24), NaN, R(100)),
      Bar(<<5, 0>>, R(0), R(0), R(0)) }

\* fetch_historical_price returns the bars sorted by tradingDate.
FetchFrames ==
    {f \in SeqsUpTo(FetchBarSet, MaxFetchBars) :
        \A i \in 1..Len(f), j \in 1..Len(f) :
            i < j => f[i].tradingDate[1] < f[j].tradingDate[1]}

FetchTickers == {"AAA", "aaa", "BBB", "VNINDEX", "vnindex"}

FetchInitStores ==
    { {},
      {ScanRow(1, "AAA", Today0 - 2, "local_copy", R(24), R(25))},
      {ScanRow(1, "AAA", Today0 - 2, "tcbs", R(24000), R(25000))} }

FetchAndScaleCall(t, frame) ==
    /\ nfetch < MaxFetch
    /\ LET r == FetchAndScale(t, frame, scaling, store, refdb, today)
       IN  /\ scaling' = r.sc
           /\ fetch' = [ticker |-> t, raw |-> frame, out |-> r.out, read |-> r.read,
                        hit |-> r.hit, detected |-> r.detected, looked |-> r.looked,
                        saved |-> r.saved, preScaling |-> scaling]
    /\ nfetch' = nfetch + 1
    /\ UNCHANGED <<upsertVars, detectVars, refdb, today, scan, scanPrev, nscans, adminVars, stageVars, viewVars>>

InitFetch ==
    /\ schema = "ticker_date_source"
    /\ store \in FetchInitStores
    /\ conn = store
    /\ clock = 1
    /\ df = <<>>
    /\ dateCol = TRUE
    /\ up = Idle(store)
    /\ prev = [st |-> "idle", ticker |-> NoTicker, source |-> "", post |-> {}]
    /\ ncalls = 0
    /\ DetectParked
    /\ ViewParked
    /\ refdb \in {[t \in Tickers |-> IF t = "AAA" THEN c ELSE Null] : c \in {Null, R(25)}}
    /\ today = Today0
    /\ scaling \in {{},
                    {ScaleRow("AAA", 1000, "autoscale")},
                    {ScaleRow("AAA", 100, "autoscale"), ScaleRow("VNINDEX", 100, "autoscale")}}
    /\ scan = NoScan
    /\ scanPrev = NoScan
    /\ nscans = 0
    /\ FetchParked

NextFetch == \E t \in FetchTickers, frame \in FetchFrames : FetchAndScaleCall(t, frame)

SpecFetch == InitFetch /\ [][NextFetch]_vars

HasRecord(sc, t) == \E x \in sc : x.ticker = Upper(t)

\* C10: when a ScaleRecord with scale s exists for a ticker other than the
\* index, fetch_and_scale returns the fetched bars with open, high, low and
\* close divided by s and everything else as fetched, looks up no reference
\* median, runs no detection, and leaves the scale cache as it was; so it
\* is on every later fetch of the ticker.
C10_CacheHit ==
    (nfetch >= 1 /\ Upper(fetch.ticker) # "VNINDEX" /\ HasRecord(fetch.preScaling, fetch.ticker)) =>
        LET s == (CHOOSE x \in fetch.preScaling : x.ticker = Upper(fetch.ticker)).scale
            Div(q, p) == IF IsNull(p) THEN IsNull(q) ELSE q = RDiv(p, R(s))
        IN  /\ Len(fetch.out) = Len(fetch.raw)
            /\ \A i \in 1..Len(fetch.raw) :
                /\ Div(fetch.out[i].open, fetch.raw[i].open)
                /\ Div(fetch.out[i].high, fetch.raw[i].high)
                /\ Div(fetch.out[i].low, fetch.raw[i].low)
                /\ Div(fetch.out[i].close, fetch.raw[i].close)
                /\ fetch.out[i].tradingDate = fetch.raw[i].tradingDate
                /\ fetch.out[i].volume = fetch.raw[i].volume
            /\ ~fetch.looked
            /\ ~fetch.detected
            /\ scaling = fetch.preScaling

C10_Witness ==
    /\ nfetch >= 2
    /\ fetch.ticker = "BBB"
    /\ HasRecord(fetch.preScaling, fetch.ticker)
    /\ Len(fetch.raw) = 2
    /\ \E i \in 1..Len(fetch.raw) : IsNull(fetch.raw[i].open)
    /\ fetch.out # fetch.raw

\* C11: when the ticker has no ScaleRecord and no local reference median
\* exists, fetch_and_scale divides open, high, low and close by 1000 if the
\* median of the fetched closes exceeds 1000, and leaves the scale cache as
\* it was.
C11_DefaultHeuristicDoesNotPersist ==
    (/\ nfetch >= 1
     /\ fetch.raw # <<>>
     /\ Upper(fetch.ticker) # "VNINDEX"
     /\ ~HasRecord(fetch.preScaling, fetch.ticker)
     /\ IsNull(LocalDbMedian(fetch.ticker, store, refdb, today))) =>
        /\ (~IsNull(FrameMedian(fetch.raw)) /\ RLt(R(1000), FrameMedian(fetch.raw)))
               => fetch.out = DivideOHLC(fetch.raw, 1000)
        /\ scaling = fetch.preScaling

\* C12: for the index ticker, in any letter case, fetch_and_scale returns
\* the fetched bars as they are and neither reads nor writes a ScaleRecord,
\* also when the cache holds a ScaleRecord for it.
C12_IndexExempt ==
    (nfetch >= 1 /\ Upper(fetch.ticker) = "VNINDEX") =>
        /\ fetch.out = fetch.raw
        /\ ~fetch.read
        /\ ~fetch.saved
        /\ scaling = fetch.preScaling

C12_Witness ==
    /\ nfetch >= 1
    /\ fetch.ticker = "vnindex"
    /\ \E x \in fetch.preScaling : x.ticker = "VNINDEX"
    /\ Len(fetch.raw) = 2
    /\ \E i \in 1..Len(fetch.raw) : fetch.raw[i].close = R(25000)

\* C14: after a scan_and_fix call with dry_run=False, every ticker it
\* detected and corrected with scale c has a ScaleRecord with scale c.
C14_ScanPersistsScale ==
    (nscans >= 1 /\ ~scan.dry) =>
        \A k \in 1..Len(scan.fixes) :
            \E x \in scaling : x.ticker = scan.fixes[k][1] /\ x.scale = scan.fixes[k][4]

----------------------------------------------------------------------------
\* force_rescale_tcbs called again and again.

ForceInitStores ==
    { {ScanRow(1, "AAA", Today0 - 10, "tcbs", R(23000), R(24000)),
       ScanRow(2, "AAA", Today0 - 3, "tcbs", Null, R(24000)),
       ScanRow(3, "AAA", Today0, "tcbs", R(0), R(25000)),
       ScanRow(4, "AAA", Today0, "local_copy", R(24), R(25)),
       ScanRow(5, "BBB", Today0, "tcbs", R(24000), R(25000))},
      {ScanRow(1, "BBB", Today0, "local_copy", R(24), R(25))} }

ForceScales == {10, 100}
ForceTickerArgs == {{}, {"aaa"}, {"AAA", "BBB"}}

\* k counts the calls in a row with the same arguments; orig is the table
\* before the first of them.
ForceRescaleCall(s, since, tickers) ==
    /\ nforce < MaxForce
    /\ LET r == ForceRescale(store, s, since, tickers, clock)
           again == /\ nforce >= 1
                    /\ force.scale = s /\ force.since = since /\ force.tickers = tickers
       IN  /\ store' = r.tbl
           /\ conn' = r.tbl
           /\ clock' = IF r.ret = 0 THEN clock ELSE clock + 1
           /\ force' = [scale |-> s, since |-> since, tickers |-> tickers, ret |-> r.ret,
                        k |-> IF again THEN force.k + 1 ELSE 1,
                        pre |-> store,
                        orig |-> IF again THEN force.orig ELSE store]
    /\ nforce' = nforce + 1
    /\ UNCHANGED <<schema, df, dateCol, up, prev, ncalls, detectVars, scanVars, fetchVars,
                   save, removed, bulk, stageVars, viewVars>>

InitForce ==
    /\ schema = "ticker_date_source"
    /\ store \in ForceInitStores
    /\ conn = store
    /\ clock = 1
    /\ df = <<>>
    /\ dateCol = TRUE
    /\ up = Idle(store)
    /\ prev = [st |-> "idle", ticker |-> NoTicker, source |-> "", post |-> {}]
    /\ ncalls = 0
    /\ DetectParked
    /\ ViewParked
    /\ refdb = [t \in Tickers |-> Null]
    /\ today = Today0
    /\ scaling = {ScaleRow("AAA", 1000, "autoscale")}
    /\ scan = NoScan
    /\ scanPrev = NoScan
    /\ nscans = 0
    /\ FetchParked

NextForce ==
    \E s \in ForceScales, since \in Sinces, tickers \in ForceTickerArgs :
        ForceRescaleCall(s, since, tickers)

SpecForce == InitForce /\ [][NextForce]_vars

RECURSIVE Pow(_, _)
Pow(s, k) == IF k = 0 THEN 1 ELSE s * Pow(s, k - 1)

ForceTargeted(x) ==
    /\ x.source = "tcbs"
    /\ (force.tickers = {} \/ \E t \in force.tickers : Upper(t) = x.ticker)
    /\ (force.since = NoSince \/ x.date >= force.since)

DividedBy(q, p, n) == IF IsNull(p) THEN IsNull(q) ELSE q = RDiv(p, R(n))

\* C15: after k calls of force_rescale_tcbs in a row with the same factor s
\* and the same ticker and since_date filters, every matching 'tcbs' row has
\* each non-null open, high, low and close at its original value divided by
\* s^k, which for k >= 2 and a non-zero value is not the original; a null
\* stays null, every other row and column but updated_at is untouched, and
\* each call returns the number of rows it updated.
C15_ForceRescaleCompounds ==
    nforce >= 1 =>
        /\ Cardinality(store) = Cardinality(force.orig)
        /\ force.ret = Cardinality({x \in force.pre : ForceTargeted(x)})
        /\ \A x \in force.orig : \E y \in store :
            /\ y.rowid = x.rowid
            /\ IF ForceTargeted(x)
                  THEN /\ DividedBy(y.open, x.open, Pow(force.scale, force.k))
                       /\ DividedBy(y.high, x.high, Pow(force.scale, force.k))
                       /\ DividedBy(y.low, x.low, Pow(force.scale, force.k))
                       /\ DividedBy(y.close, x.close, Pow(force.scale, force.k))
                       /\ (force.k >= 2 /\ ~IsNull(x.close) /\ x.close # R(0))
                              => y.close # x.close
                       /\ y = [x EXCEPT !.open = y.open, !.high = y.high,
                                        !.low = y.low, !.close = y.close,
                                        !.updated_at = y.updated_at]
                  ELSE y = x

C15_Witness ==
    /\ nforce >= 2
    /\ force.k = 2
    /\ force.tickers = {"aaa"}
    /\ force.since # NoSince
    /\ force.ret = 2
    /\ \E x \in force.orig : ForceTargeted(x) /\ IsNull(x.open)
    /\ \E x \in force.orig : x.source = "tcbs" /\ ~ForceTargeted(x)

----------------------------------------------------------------------------
\* The operations on one price_data.db, in any order.

\* upsert_prices_from_df on a frame whose dates are all well-formed: every
\* INSERT OR REPLACE runs and every batch is committed.
RECURSIVE UpsertRows(_, _, _, _, _)
UpsertRows(tbl, rows, m, now, sch) ==
    IF m = 0 THEN tbl
    ELSE InsertOrReplace(UpsertRows(tbl, rows, m - 1, now, sch), rows[m], now + m - 1, sch)

OneBar == <<Bar(<<1, 0>>, R(24000), R(25000), R(100))>>

OpsDone == nfetch + nscans + ncalls + nforce + save.n + removed.n

\* upsert_prices_from_df(df, ticker=t, source=src), start to return.
UpsertCall(t, src, frame) ==
    /\ store' = UpsertRows(store, PrepRows(frame, t, src), Len(frame), clock, schema)
    /\ conn' = store'
    /\ clock' = clock + Len(frame)
    /\ ncalls' = ncalls + 1
    /\ prev' = [st |-> up.st, ticker |-> up.ticker, source |-> up.source, post |-> store]
    /\ up' = [Idle(store) EXCEPT !.ticker = t, !.source = src, !.st = "returned",
                !.rows = PrepRows(frame, t, src), !.i = Len(frame), !.done = Len(frame),
                !.ret = Len(frame)]
    /\ UNCHANGED <<schema, df, dateCol, detectVars, scanVars, fetchVars, adminVars, stageVars, viewVars>>

\* save_scale(ticker, scale, detected_by='manual') called on its own.
SaveScaleCall(t, s) ==
    /\ scaling' = SaveScale(scaling, t, s, "manual")
    /\ save' = [n |-> save.n + 1, ticker |-> t, scale |-> s, pre |-> scaling]
    /\ UNCHANGED <<upsertVars, detectVars, refdb, today, scan, scanPrev, nscans, fetchVars,
                   force, nforce, removed, bulk, stageVars, viewVars>>

\* remove_tcbs_data(db_path, since_date, tickers).
RemoveTcbsCall(since, tickers) ==
    /\ LET r == RemoveTcbs(store, since, tickers)
       IN  /\ store' = r.tbl
           /\ conn' = r.tbl
           /\ removed' = [n |-> removed.n + 1, since |-> since, tickers |-> tickers,
                          ret |-> r.ret, pre |-> store]
    /\ UNCHANGED <<schema, clock, df, dateCol, up, prev, ncalls, detectVars, scanVars,
                   fetchVars, force, nforce, save, bulk, stageVars, viewVars>>

InitStore ==
    /\ schema \in {"ticker_date", "ticker_date_source"}
    /\ store = {ScanRow(1, "AAA", Today0, "tcbs", R(24000), R(25000)),
                ScanRow(2, "AAA", Today0 - 2, "local_copy", R(24), R(25))}
    /\ conn = store
    /\ clock = 1
    /\ df = <<>>
    /\ dateCol = TRUE
    /\ up = Idle(store)
    /\ prev = [st |-> "idle", ticker |-> NoTicker, source |-> "", post |-> {}]
    /\ ncalls = 0
    /\ DetectParked
    /\ ViewParked
    /\ refdb = [t \in Tickers |-> Null]
    /\ today = Today0
    /\ scaling \in {{}, {ScaleRow("AAA", 1000, "autoscale")}}
    /\ scan = NoScan
    /\ scanPrev = NoScan
    /\ nscans = 0
    /\ FetchParked

NextStore ==
    /\ OpsDone < MaxOps
    /\ \/ \E t \in {"aaa", "BBB"} : FetchAndScaleCall(t, OneBar)
       \/ \E t \in {"aaa", "BBB"}, s \in {10, 1000} : SaveScaleCall(t, s)
       \/ \E dry \in BOOLEAN : ScanAndFixCall(dry, NoSince)
       \/ \E tickers \in {{}, {"aaa"}} : ForceRescaleCall(10, NoSince, tickers)
       \/ UpsertCall("BBB", "tcbs", OneBar)
       \/ \E tickers \in {{}, {"aaa"}} : RemoveTcbsCall(NoSince, tickers)

SpecStore == InitStore /\ [][NextStore]_vars

OnePerTicker ==
    \A x \in scaling : x.ticker = Upper(x.ticker) /\ \A y \in scaling : y.ticker = x.ticker => y = x

RecordsKept == \A x \in scaling : \E y \in scaling' : y.ticker = x.ticker

SaveReplaces ==
    save'.n # save.n =>
        /\ \E y \in scaling' : y.ticker = Upper(save'.ticker) /\ y.scale = save'.scale
        /\ {y.ticker : y \in scaling'} = {x.ticker : x \in scaling} \cup {Upper(save'.ticker)}

\* C13: over every sequence of fetch_and_scale, save_scale, scan_and_fix,
\* force_rescale_tcbs, upsert and remove_tcbs_data calls, tcbs_scaling holds
\* at most one ScaleRecord per upper-cased ticker, a ticker that has one
\* keeps one in every later state, and a save for a ticker that has one
\* replaces its scale and adds no record.
C13_ScaleCachePersists ==
    /\ []OnePerTicker
    /\ [][RecordsKept /\ SaveReplaces]_vars

C13_Witness ==
    /\ save.n >= 1
    /\ save.ticker = "aaa"
    /\ \E x \in save.pre : x.ticker = "AAA" /\ x.scale # save.scale
    /\ removed.n >= 1
    /\ Cardinality(scaling) = 1

----------------------------------------------------------------------------
\* Bulk runs: update_all_tickers_via_api ("all") and update_from_api
\* ("from_api").  What happens to one ticker is an input: the API answers
\* with a frame (empty after a failed request), and the upsert returns
\* ("ok"), raises before its first commit ("error": a sqlite3 error, or
\* float() of a non-numeric price in _safe), or the operator presses Ctrl-C
\* ("interrupt").

BulkQueues == {<<"AAA", "BBB">>, <<"BBB", "AAA", "BBB">>}
BulkOutcomes == {"ok", "error", "interrupt"}

BulkStart(mode, queue) ==
    /\ bulk.st = "idle"
    /\ bulk' = [NoBulk EXCEPT !.mode = mode, !.queue = queue, !.st = "running"]
    /\ UNCHANGED <<upsertVars, detectVars, scanVars, fetchVars, force, nforce, save, removed, stageVars, viewVars>>

\* The loop's position after the turn for queue[pos] has ended normally.
BulkNext(b, counted) ==
    [b EXCEPT !.pos = @ + 1,
              !.attempted = @ \cup {b.pos},
              !.processed = IF counted THEN @ + 1 ELSE @,
              !.st = IF b.pos + 1 > Len(b.queue) THEN "done" ELSE "running"]

\* The run after a turn that fetched and then did or did not reach its
\* time.sleep (lines 397, 440).
Paced(b, slept) ==
    [b EXCEPT !.trace = @ \o (IF slept THEN <<"fetch", "sleep">> ELSE <<"fetch">>)]

\* One turn of the loop (lines 386-397, 418-440) for the ticker queue[pos].
BulkStep(frame, outcome) ==
    /\ bulk.st = "running"
    /\ LET t == bulk.queue[bulk.pos]
           r == FetchAndScale(t, frame, scaling, store, refdb, today)
           rows == PrepRows(r.out, t, "tcbs")
       IN  IF outcome = "interrupt"
              THEN /\ bulk' = Paced([bulk EXCEPT !.st = "interrupted",
                                                  !.attempted = @ \cup {bulk.pos}], FALSE)
                   /\ UNCHANGED <<store, conn, clock, scaling>>
           ELSE IF r.out = <<>>
              THEN /\ bulk' = Paced(BulkNext(bulk, bulk.mode = "all"), bulk.mode = "all")
                   /\ scaling' = r.sc
                   /\ UNCHANGED <<store, conn, clock>>
           ELSE IF outcome = "error"
              THEN /\ bulk' = IF bulk.mode = "all"
                                 THEN Paced([BulkNext(bulk, FALSE) EXCEPT
                                                !.failed = @ \cup {bulk.pos}], TRUE)
                                 ELSE Paced([bulk EXCEPT !.st = "raised",
                                                         !.attempted = @ \cup {bulk.pos},
                                                         !.failed = @ \cup {bulk.pos}], FALSE)
                   /\ scaling' = r.sc
                   /\ UNCHANGED <<store, conn, clock>>
           ELSE /\ bulk' = Paced(BulkNext(bulk, bulk.mode = "all"), TRUE)
                /\ scaling' = r.sc
                /\ store' = UpsertRows(store, rows, Len(rows), clock, schema)
                /\ conn' = store'
                /\ clock' = clock + Len(rows)
    /\ UNCHANGED <<schema, df, dateCol, up, prev, ncalls, detectVars, refdb, today, scan,
                   scanPrev, nscans, fetchVars, force, nforce, save, removed, stageVars, viewVars>>

InitBulk ==
    /\ schema \in {"ticker_date", "ticker_date_source"}
    /\ store \in {{}, {ScanRow(1, "AAA", Today0 - 2, "local_copy", R(24), R(25))}}
    /\ conn = store
    /\ clock = 1
    /\ df = <<>>
    /\ dateCol = TRUE
    /\ up = Idle(store)
    /\ prev = [st |-> "idle", ticker |-> NoTicker, source |-> "", post |-> {}]
    /\ ncalls = 0
    /\ DetectParked
    /\ ViewParked
    /\ refdb = [t \in Tickers |-> Null]
    /\ today = Today0
    /\ scaling \in {{}, {ScaleRow("AAA", 1000, "autoscale")}}
    /\ scan = NoScan
    /\ scanPrev = NoScan
    /\ nscans = 0
    /\ FetchParked

NextBulk ==
    \/ \E mode \in {"all", "from_api"}, queue \in BulkQueues : BulkStart(mode, queue)
    \/ \E frame \in {<<>>, OneBar}, outcome \in BulkOutcomes : BulkStep(frame, outcome)

SpecBulk == InitBulk /\ [][NextBulk]_vars

\* C16: in a bulk run of either kind, a failure on one ticker never ends the
\* run: a run that ended without an operator's cancellation attempted every
\* ticker of its queue.
C16_FailureIsolation ==
    /\ bulk.st # "raised"
    /\ bulk.st = "done" => bulk.attempted = 1..Len(bulk.queue)

----------------------------------------------------------------------------
\* ta_dashboard.py: detect_stage.  A series is a sequence of values, NaN for
\* a missing one; s.iat[i] of the source is s[i + 1] here.

StageLabels ==
    {"1. Troughing", "2. Confirmed Trough", "3. Rising above Zero",
     "4. Peaking", "5. Confirmed Peak", "6. Falling below Zero"}

NotNa(x) == ~IsNull(x)

\* hist.dropna().reset_index(drop=True)
DropNa(h) == SelectSeq(h, NotNa)

Neg(x) == RLt(x, R(0))
Pos(x) == RLt(R(0), x)

\* The sign change tested at line 132 between s.iat[i] and s.iat[i + 1].
CrossAt(s, i) ==
    \/ Neg(s[i + 1]) /\ ~Neg(s[i + 2])
    \/ Pos(s[i + 1]) /\ ~Pos(s[i + 2])

\* range(len(s) - 2, max(0, len(s) - lookback - 1), -1)
SearchRange(n, lb) ==
    {i \in 0..(n - 2) : i > (IF n - lb - 1 > 0 THEN n - lb - 1 ELSE 0)}

\* Lines 130-134: last_cross_idx, len(s) - 1 when the search finds nothing.
LastCrossIdx(s, lb) ==
    LET found == {i \in SearchRange(Len(s), lb) : CrossAt(s, i)}
    IN  IF found = {} THEN Len(s) - 1
        ELSE 1 + CHOOSE i \in found : \A j \in found : j <= i

\* window.idxmin(): the first index from ws on that holds the least value.
IdxMin(s, ws) ==
    CHOOSE i \in ws..(Len(s) - 1) :
        /\ \A j \in ws..(Len(s) - 1) : RLe(s[i + 1], s[j + 1])
        /\ \A j \in ws..(i - 1) : RLt(s[i + 1], s[j + 1])

\* window.idxmax(): the first index from ws on that holds the greatest value.
IdxMax(s, ws) ==
    CHOOSE i \in ws..(Len(s) - 1) :
        /\ \A j \in ws..(Len(s) - 1) : RLe(s[j + 1], s[i + 1])
        /\ \A j \in ws..(i - 1) : RLt(s[j + 1], s[i + 1])

\* Sum over j in 0..m of (2j - m) * s.iat[from + j].
RECURSIVE Moment(_, _, _, _)
Moment(s, from, m, j) ==
    IF j > m THEN R(0)
    ELSE RAdd(RMul(R(2 * j - m), s[from + j + 1]), Moment(s, from, m, j + 1))

RECURSIVE SumSq(_, _)
SumSq(m, j) == IF j > m THEN 0 ELSE (2 * j - m) * (2 * j - m) + SumSq(m, j + 1)

\* np.polyfit(range(len(recent_vals)), recent_vals.values, 1)[0] for
\* recent_vals = s.iloc[from:]: the least-squares slope, computed exactly.
Slope(s, from) ==
    RDiv(RMul(R(2), Moment(s, from, Len(s) - 1 - from, 0)), R(SumSq(Len(s) - 1 - from, 0)))

\* Lines 140-156, for last < 0 and the window s.iloc[ws:].
NegativeStage(s, ws) ==
    IF Len(s) - ws >= 3 /\ IdxMin(s, ws) < Len(s) - 1 /\ Pos(Slope(s, IdxMin(s, ws)))
       THEN "1. Troughing"
       ELSE "6. Falling below Zero"

\* Lines 157-172, for last >= 0 and the window s.iloc[ws:].
PositiveStage(s, ws) ==
    IF Len(s) - ws >= 3 /\ IdxMax(s, ws) < Len(s) - 1 /\ Neg(Slope(s, IdxMax(s, ws)))
       THEN "4. Peaking"
       ELSE "3. Rising above Zero"

\* A length test that lets a series of two values through.
TooShortBelowTwo(s) == Len(s) < 2

\* Line 113: s.empty or len(s) < 3
TooShort(s) == Len(s) < 3

\* A cross-up that needs the last bar strictly above zero.
CrossUpStrict(p, l) == Neg(p) /\ Pos(l)

\* Line 119: cross_up
CrossUp(p, l) == Neg(p) /\ ~Neg(l)

\* Line 120: cross_down
CrossDown(p, l) == Pos(p) /\ ~Pos(l)

\* Lines 113-172 on the series without its missing values.
StageOf(s, lb) ==
    IF TooShort(s) THEN "N/A"
    ELSE IF CrossUp(s[Len(s) - 1], s[Len(s)]) THEN "2. Confirmed Trough"
    ELSE IF CrossDown(s[Len(s) - 1], s[Len(s)]) THEN "5. Confirmed Peak"
    ELSE IF Neg(s[Len(s)]) THEN NegativeStage(s, LastCrossIdx(s, lb))
    ELSE PositiveStage(s, LastCrossIdx(s, lb))

\* detect_stage(hist, lookback)
DetectStage(h, lb) == StageOf(DropNa(h), lb)

HistValues == {<<-6, 5>>, <<-9, 10>>, <<-1, 2>>, <<-1, 10>>, R(0), <<1, 2>>, <<6, 5>>, NaN}

\* The series of at most MaxHist values, at most one of them missing.
HistSeries ==
    {h \in UNION {[1..k -> HistValues] : k \in 0..MaxHist} :
        Cardinality({i \in 1..Len(h) : IsNull(h[i])}) <= 1}

Lookbacks == {0, 3, 20}

DetectStageCall ==
    /\ stage = "pending"
    /\ stage' = DetectStage(hist, lookback)
    /\ UNCHANGED <<hist, lookback, trio, score, trioPrev, scorePrev>>
    /\ UNCHANGED <<upsertVars, detectVars, scanVars, fetchVars, adminVars, viewVars>>

InitStage ==
    /\ UpsertParked
    /\ DetectParked
    /\ ViewParked
    /\ ScanParked
    /\ fetch = NoFetch
    /\ nfetch = 0
    /\ force = NoForce
    /\ nforce = 0
    /\ save = NoSave
    /\ removed = NoRemove
    /\ bulk = NoBulk
    /\ hist \in HistSeries
    /\ lookback \in Lookbacks
    /\ stage = "pending"
    /\ trio = <<"N/A", "N/A", "N/A">>
    /\ score = 0
    /\ trioPrev = <<>>
    /\ scorePrev = 0

NextStage == DetectStageCall

SpecStage == InitStage /\ [][NextStage]_vars

\* C17: detect_stage returns 'N/A' exactly when the series has fewer than 3
\* values once its missing values are dropped, and one of the six stage
\* labels for every series of 3 or more values and every lookback.
Present(h) == Cardinality({i \in 1..Len(h) : h[i][2] # 0})

C17_Total ==
    stage # "pending" =>
        /\ stage = "N/A" <=> Present(hist) < 3
        /\ Present(hist) >= 3 => stage \in StageLabels

C17_Witness ==
    /\ stage = "1. Troughing"
    /\ Len(hist) = 5
    /\ lookback = 20

C17_WitnessUndefined ==
    /\ stage = "N/A"
    /\ Len(hist) = 3
    /\ Present(hist) = 2

\* The last two values of the series once its missing values are dropped.
LastBar == DropNa(hist)[Len(DropNa(hist))]
PrevBar == DropNa(hist)[Len(DropNa(hist)) - 1]

\* C18: for every series of 3 or more values and every lookback,
\* detect_stage returns Confirmed Trough exactly when prev < 0 and last >= 0,
\* and Confirmed Peak exactly when prev > 0 and last <= 0, whatever the
\* earlier values are.
C18_ZeroCrossLabels ==
    (stage # "pending" /\ Present(hist) >= 3) =>
        /\ stage = "2. Confirmed Trough" <=>
               (RLt(PrevBar, R(0)) /\ RLe(R(0), LastBar))
        /\ stage = "5. Confirmed Peak" <=>
               (RLt(R(0), PrevBar) /\ RLe(LastBar, R(0)))

C18_Witness ==
    /\ stage = "2. Confirmed Trough"
    /\ Len(hist) = 5
    /\ LastBar = R(0)
    /\ \E i \in 1..3 : RLt(R(0), hist[i])

C18_WitnessPeak ==
    /\ stage = "5. Confirmed Peak"
    /\ Len(hist) = 5
    /\ LastBar = R(0)
    /\ \E i \in 1..3 : RLt(hist[i], R(0))

AllNegative(s) == \A i \in 1..Len(s) : RLt(s[i], R(0))
AllPositive(s) == \A i \in 1..Len(s) : RLt(R(0), s[i])

\* C19: with no zero-crossing in the trailing bars the window is the whole
\* series: a series negative throughout whose minimum is not the final bar
\* and which rises from that minimum with positive slope is labelled
\* Troughing, and an all-positive series falling from a non-final maximum is
\* labelled Peaking.
C19_WholeSeriesWindow ==
    (stage # "pending" /\ Present(hist) >= 3) =>
        /\ ( /\ AllNegative(DropNa(hist))
             /\ IdxMin(DropNa(hist), 0) < Len(DropNa(hist)) - 1
             /\ RLt(R(0), Slope(DropNa(hist), IdxMin(DropNa(hist), 0))) )
               => stage = "1. Troughing"
        /\ ( /\ AllPositive(DropNa(hist))
             /\ IdxMax(DropNa(hist), 0) < Len(DropNa(hist)) - 1
             /\ RLt(Slope(DropNa(hist), IdxMax(DropNa(hist), 0)), R(0)) )
               => stage = "4. Peaking"

----------------------------------------------------------------------------
\* ta_dashboard.py: stage_score and the composite score of build_overview.

\* The base names that occur in a stage string (the `in` tests of
\* stage_score).
NamesIn(st) ==
    CASE st = "1. Troughing" -> {"Troughing"}
      [] st = "2. Confirmed Trough" -> {"Confirmed Trough"}
      [] st = "3. Rising above Zero" -> {"Rising above Zero"}
      [] st = "4. Peaking" -> {"Peaking"}
      [] st = "5. Confirmed Peak" -> {"Confirmed Peak"}
      [] st = "6. Falling below Zero" -> {"Falling below Zero"}
      [] OTHER -> {}

\* stage_score(stage)
StageScore(st) ==
    IF "Confirmed Trough" \in NamesIn(st) THEN 3
    ELSE IF "Troughing" \in NamesIn(st) THEN 2
    ELSE IF "Rising above Zero" \in NamesIn(st) THEN 1
    ELSE IF "Peaking" \in NamesIn(st) THEN 0 - 2
    ELSE IF "Confirmed Peak" \in NamesIn(st) THEN 0 - 3
    ELSE IF "Falling below Zero" \in NamesIn(st) THEN 0 - 1
    ELSE 0

\* A weighted sum with the monthly weight negated.
TenthsMonthlyNegated(d, w, m) == 5 * d + 3 * w - 2 * m

\* Line 269: 0.5*d + 0.3*w + 0.2*m, in tenths.
Tenths(d, w, m) == 5 * d + 3 * w + 2 * m

\* Line 269 in double precision: where the exact sum ends in .5, the side of
\* it on which the computed sum falls (0 when the sum is computed exactly).
FloatSide(d, w, m) ==
    IF <<d, w, m>> \in {<<-2, 1, 1>>, <<0, -3, 2>>, <<1, -2, 3>>, <<2, -3, 2>>}
       THEN 1
    ELSE IF <<d, w, m>> \in {<<-2, 3, -2>>, <<-1, 2, -3>>, <<0, 3, -2>>, <<2, -1, -1>>}
       THEN 0 - 1
    ELSE 0

\* Line 276: int(np.round(score)), half to even, for a sum of t tenths that
\* was computed on the given side of its exact value.
RoundScore(t, side) ==
    IF t % 10 < 5 THEN t \div 10
    ELSE IF t % 10 > 5 THEN (t \div 10) + 1
    ELSE IF side > 0 THEN (t \div 10) + 1
    ELSE IF side < 0 THEN t \div 10
    ELSE IF (t \div 10) % 2 = 0 THEN t \div 10
    ELSE (t \div 10) + 1

\* Lines 269 and 276: the Score column of one row.
CompositeScore(d, w, m) == RoundScore(Tenths(d, w, m), FloatSide(d, w, m))

StageNames == StageLabels \cup {"N/A"}

\* The Score column of a row with the given daily, weekly and monthly stages.
RowScore(t) == CompositeScore(StageScore(t[1]), StageScore(t[2]), StageScore(t[3]))

\* build_overview scores a ticker's row again, one of its three stages
\* having been detected anew.
ScoreRow ==
    /\ \E k \in 1..3, st \in StageNames :
          /\ trio' = [trio EXCEPT ![k] = st]
          /\ score' = RowScore([trio EXCEPT ![k] = st])
    /\ trioPrev' = trio
    /\ scorePrev' = score
    /\ UNCHANGED <<hist, lookback, stage>>
    /\ UNCHANGED <<upsertVars, detectVars, scanVars, fetchVars, adminVars, viewVars>>

InitScore ==
    /\ UpsertParked
    /\ DetectParked
    /\ ViewParked
    /\ ScanParked
    /\ FetchParked

NextScore == ScoreRow

SpecScore == InitScore /\ [][NextScore]_vars

\* The current row has one stage score above the previous row's and the
\* other two equal to it.
OneRaised ==
    /\ trioPrev # <<>>
    /\ \E k \in 1..3 :
          /\ StageScore(trio[k]) > StageScore(trioPrev[k])
          /\ \A j \in (1..3) \ {k} : StageScore(trio[j]) = StageScore(trioPrev[j])

\* C20: the composite score round(0.5*d + 0.3*w + 0.2*m) is monotonic:
\* raising any one of the three stage scores (0 for an undefined stage)
\* while the other two stay fixed never lowers the composite score.
C20_Monotonic ==
    /\ \A k \in 1..3 : trio[k] = "N/A" => StageScore(trio[k]) = 0
    /\ OneRaised => score >= scorePrev

C20_Witness ==
    /\ OneRaised
    /\ trio = <<"3. Rising above Zero", "4. Peaking", "2. Confirmed Trough">>
    /\ trioPrev[3] = "N/A"
    /\ score = 1
    /\ scorePrev = 0

----------------------------------------------------------------------------
\* ta_dashboard.py: the volume ratio of build_overview.  Times of day are
\* seconds since midnight; a row of df is [date, volume].

morning_start == 32400
morning_end == 41400
afternoon_start == 46800
afternoon_end == 53100
morning_minutes == 150
total_trading_minutes == 255

\* Lines 206-218: elapsed_trading_minutes at current_time t.
ElapsedTradingMinutes(t) ==
    IF morning_start <= t /\ t <= morning_end
       THEN Norm(t - morning_start, 60)
    ELSE IF afternoon_start <= t /\ t <= afternoon_end
       THEN RAdd(R(morning_minutes), Norm(t - afternoon_start, 60))
    ELSE IF t > afternoon_end THEN R(total_trading_minutes)
    ELSE R(0)

\* Line 221: time_factor
TimeFactor(t) == RDiv(ElapsedTradingMinutes(t), R(total_trading_minutes))

\* Line 257: df[df['date'] < latest_date]
DfHist(b) ==
    LET Earlier(r) == r.date < b[Len(b)].date
    IN  SelectSeq(b, Earlier)

\* Series.tail(k)
TailOf(s, k) == IF Len(s) <= k THEN s ELSE SubSeq(s, Len(s) - k + 1, Len(s))

RECURSIVE SumVolume(_, _)
SumVolume(s, i) == IF i = 0 THEN 0 ELSE s[i].volume + SumVolume(s, i - 1)

\* Series.mean() of the volume column of a frame with rows.
MeanVolume(s) == Norm(SumVolume(s, Len(s)), Len(s))

AVG_BARS == 20

\* An average that takes every earlier bar.
AvgVolAllBars(h, cur) ==
    IF Len(h) > 0 THEN MeanVolume(h)
    ELSE R(cur)

\* Lines 258-263: avg_vol, from df_hist and current_vol.
AvgVol(h, cur) ==
    IF Len(h) >= AVG_BARS THEN MeanVolume(TailOf(h, AVG_BARS))
    ELSE IF Len(h) > 0 THEN MeanVolume(h)
    ELSE R(cur)

\* Line 266: adjusted_current_vol
AdjustedCurrentVol(cur, tf) == IF RLt(R(0), tf) THEN RDiv(R(cur), tf) ELSE R(cur)

\* Line 267: vol_ratio, from adjusted_current_vol and avg_vol.
RatioOf(adj, avg) == IF RLt(R(0), avg) THEN RDiv(adj, avg) ELSE R(1)

\* Lines 228-267: vol_ratio of a ticker whose rows are b, at time factor tf.
VolRatio(b, tf) ==
    RatioOf(AdjustedCurrentVol(b[Len(b)].volume, tf),
            AvgVol(DfHist(b), b[Len(b)].volume))

VolRow(d, v) == [date |-> d, volume |-> v]

\* Rows of i earlier bars of volume a, then j earlier bars of volume c, then
\* the latest date: when dup, a row of another source, and the latest row.
VolFrame(i, j, a, c, dup, cur) ==
    [k \in 1..i |-> VolRow(k, a)]
    \o [k \in 1..j |-> VolRow(i + k, c)]
    \o (IF dup THEN <<VolRow(i + j + 1, c)>> ELSE <<>>)
    \o <<VolRow(i + j + 1, cur)>>

\* What load_price_range returns: nothing, or rows in date order.
VolFrames ==
    {<<>>} \cup
    {VolFrame(i, j, a, c, dup, cur) :
        i \in 0..MaxOld, j \in 0..MaxRecent, a \in {0, 200000},
        c \in {0, 100000}, dup \in BOOLEAN, cur \in {0, 150000}}

\* 08:00, 09:00, 09:00:30, 10:00, 11:30, 11:30:30, 12:00, 13:00, 13:00:30,
\* 14:00, 14:45, 14:45:30, 16:00
Times ==
    {28800, 32400, 32430, 36000, 41400, 41430, 43200, 46800, 46830,
     50400, 53100, 53130, 57600}

\* build_overview runs, later in the day than the run before it.
BuildOverview ==
    /\ \E t \in Times :
          /\ t > currentTime
          /\ currentTime' = t
          /\ timeFactor' = TimeFactor(t)
          /\ volRatio' = IF bars = <<>> THEN Null ELSE VolRatio(bars, TimeFactor(t))
    /\ timePrev' = currentTime
    /\ factorPrev' = timeFactor
    /\ UNCHANGED <<bars, crossHist, crossCur, crossDays>>
    /\ UNCHANGED <<upsertVars, detectVars, scanVars, fetchVars, adminVars, stageVars>>

InitVolume ==
    /\ UpsertParked
    /\ DetectParked
    /\ ScanParked
    /\ FetchParked
    /\ bars \in VolFrames
    /\ currentTime = NoTime
    /\ timeFactor = Null
    /\ volRatio = Null
    /\ timePrev = NoTime
    /\ factorPrev = Null
    /\ crossHist = <<>>
    /\ crossCur = Null
    /\ crossDays = NoDays

NextVolume == BuildOverview

SpecVolume == InitVolume /\ [][NextVolume]_vars

\* The time lies before the open or after the close.
OutsideHours == currentTime # NoTime /\ (currentTime < 32400 \/ currentTime > 53100)

\* The rows of bars dated before the latest row.
EarlierBars == SelectSeq(bars, LAMBDA r : r.date < bars[Len(bars)].date)

\* The sum and the number of the volumes of the 20 most recent earlier bars,
\* of all of them when there are fewer than 20.
RecentIdx == {k \in 1..Len(EarlierBars) : k > Len(EarlierBars) - 20}
RECURSIVE SumOver(_, _)
SumOver(s, idx) ==
    IF idx = {} THEN 0
    ELSE LET k == CHOOSE k \in idx : TRUE IN s[k].volume + SumOver(s, idx \ {k})

\* C21: outside trading hours (before 09:00 or after 14:45) the volume
\* ratio of a ticker equals the volume of its latest bar divided by the mean
\* volume of its 20 most recent earlier bars (all earlier bars when fewer
\* than 20 exist), where that mean is positive.
C21_ClosedMarketRatio ==
    (OutsideHours /\ bars # <<>> /\ SumOver(EarlierBars, RecentIdx) > 0) =>
        volRatio = Norm(bars[Len(bars)].volume * Cardinality(RecentIdx),
                        SumOver(EarlierBars, RecentIdx))

C21_Witness ==
    /\ OutsideHours
    /\ Len(EarlierBars) = 21
    /\ EarlierBars[1].volume = 200000
    /\ \A k \in 2..21 : EarlierBars[k].volume = 100000
    /\ bars[Len(bars)].volume = 150000
    /\ volRatio = <<3, 2>>

\* The trading minutes elapsed at a time from the open to the close: minutes
\* since 09:00 in session A, 150 between the sessions, 150 plus minutes
\* since 13:00 in session B.
TradingMinutes(t) ==
    IF t <= 41400 THEN Norm(t - 32400, 60)
    ELSE IF t < 46800 THEN R(150)
    ELSE RAdd(R(150), Norm(t - 46800, 60))

InHours(t) == 32400 <= t /\ t <= 53100

\* C22: at every time from the open (09:00) to the close (14:45) the elapsed
\* fraction equals the trading minutes elapsed so far divided by 255 and lies
\* in [0,1], with the full 150 minutes of session A counted between the
\* sessions, and so never decreases as the day advances.
C22_ElapsedFraction ==
    /\ InHours(currentTime) =>
          /\ timeFactor = RDiv(TradingMinutes(currentTime), R(255))
          /\ RLe(R(0), timeFactor) /\ RLe(timeFactor, R(1))
    /\ (InHours(currentTime) /\ InHours(timePrev)) => RLe(factorPrev, timeFactor)

\* C23: a ticker with no bar earlier than its latest bar has volume ratio
\* 1.0, for every current volume and at every time of day.
C23_NoHistoryRatioIsOne ==
    (currentTime # NoTime /\ bars # <<>> /\ Len(EarlierBars) = 0) => volRatio = R(1)

----------------------------------------------------------------------------
\* ta_dashboard.py: estimate_days_to_cross.  hist_series is what macd_hist
\* gave for the rows loaded, one value per row.

DaysPending == <<0 - 2, 1>>

MIN_ROWS == 10
VELOCITY_LOOKBACKS == <<3, 5, 10>>

\* 0.005
MIN_VELOCITY == <<1, 200>>

\* Lines 830-833: 0.5 <= days <= 5
InRange(d) == RLe(<<1, 2>>, d) /\ RLe(d, R(5))

\* A direction test that accepts a move away from zero as well.
TowardZeroEitherWay(cur, v) ==
    (RLt(cur, R(0)) \/ RLt(R(0), cur)) /\ (RLt(v, R(0)) \/ RLt(R(0), v))

\* Lines 830-833: current_hist < 0 and velocity > 0, or the reverse.
TowardZero(cur, v) ==
    \/ RLt(cur, R(0)) /\ RLt(R(0), v)
    \/ RLt(R(0), cur) /\ RLt(v, R(0))

\* np.diff summed over the first i values of s.
RECURSIVE SumDiff(_, _)
SumDiff(s, i) == IF i < 2 THEN R(0) ELSE RAdd(RSub(s[i], s[i - 1]), SumDiff(s, i - 1))

\* Line 815: np.mean(np.diff(recent_hist)), for two values or more.
MeanDiff(s) == RDiv(SumDiff(s, Len(s)), R(Len(s) - 1))

\* hist_series.tail(k)
HistTail(h, k) == IF Len(h) <= k THEN h ELSE SubSeq(h, Len(h) - k + 1, Len(h))

\* Line 816: abs(velocity) > 0.005
FastEnough(v) == RLt(MIN_VELOCITY, RAbs(v))

\* Lines 811-817: velocities
Velocities(h) ==
    SelectSeq([k \in 1..Len(VELOCITY_LOOKBACKS) |->
                  MeanDiff(HistTail(h, VELOCITY_LOOKBACKS[k]))], FastEnough)

\* np.median of one, two or three values.
MedianOfFew(vs) ==
    IF Len(vs) = 1 THEN vs[1]
    ELSE IF Len(vs) = 2 THEN RDiv(RAdd(vs[1], vs[2]), R(2))
    ELSE vs[CHOOSE i \in 1..3 :
                /\ Cardinality({j \in 1..3 : RLe(vs[j], vs[i])}) >= 2
                /\ Cardinality({j \in 1..3 : RLe(vs[i], vs[j])}) >= 2]

\* Lines 826-834, from current_hist and the median velocity.
DaysFrom(cur, v) ==
    IF IsNull(cur) \/ RLt(RAbs(v), MIN_VELOCITY) THEN NoDays
    ELSE IF TowardZero(cur, v) /\ InRange(RAbs(RDiv(cur, v)))
       THEN RAbs(RDiv(cur, v))
    ELSE NoDays

\* estimate_days_to_cross, from hist_series and current_hist.
EstimateDaysToCross(h, cur) ==
    IF Len(h) < MIN_ROWS THEN NoDays
    ELSE IF Velocities(h) = <<>> THEN NoDays
    ELSE DaysFrom(cur, MedianOfFew(Velocities(h)))

CrossValues == {<<-1, 10>>, <<-1, 50>>, R(0), <<1, 50>>, <<1, 10>>}

\* Series of n values, zero but for the first value of each trailing window
\* and the last value.
CrossSeries(n) ==
    {[i \in 1..n |->
        IF i = n THEN a
        ELSE IF i = n - 2 THEN b
        ELSE IF i = n - 4 THEN c
        ELSE IF i = n - 9 THEN d
        ELSE R(0)] : a \in CrossValues, b \in CrossValues,
                     c \in CrossValues, d \in CrossValues}

CrossCurrents == CrossValues \cup {NaN}

EstimateCall ==
    /\ crossDays = DaysPending
    /\ crossDays' = EstimateDaysToCross(crossHist, crossCur)
    /\ UNCHANGED <<bars, currentTime, timeFactor, volRatio, timePrev, factorPrev,
                   crossHist, crossCur>>
    /\ UNCHANGED <<upsertVars, detectVars, scanVars, fetchVars, adminVars, stageVars>>

InitCross ==
    /\ UpsertParked
    /\ DetectParked
    /\ ScanParked
    /\ FetchParked
    /\ bars = <<>>
    /\ currentTime = NoTime
    /\ timeFactor = Null
    /\ volRatio = Null
    /\ timePrev = NoTime
    /\ factorPrev = Null
    /\ crossHist \in CrossSeries(MaxCrossBars - 1) \cup CrossSeries(MaxCrossBars)
    /\ crossCur \in CrossCurrents
    /\ crossDays = DaysPending

NextCross == EstimateCall

SpecCross == InitCross /\ [][NextCross]_vars

\* The velocity of the claim: the median of the mean first differences over
\* the trailing 3, 5 and 10 bars that exceed 0.005 in size.
Velocity == MedianOfFew(Velocities(crossHist))

Reported == crossDays # DaysPending /\ crossDays # NoDays

\* C24: estimate_days_to_cross returns a value d only when the velocity has
\* the sign opposite to the current histogram and d = |current histogram /
\* velocity| lies in [0.5, 5]; when all windows are too flat, the velocity
\* points away from zero or d is outside the range it reports nothing.
C24_ReportedOnlyTowardZero ==
    /\ Reported =>
          /\ Velocities(crossHist) # <<>>
          /\ crossCur[2] # 0
          /\ crossCur[1] * Velocity[1] < 0
          /\ crossDays = RAbs(RDiv(crossCur, Velocity))
          /\ crossDays[1] * 2 >= crossDays[2]
          /\ crossDays[1] <= 5 * crossDays[2]
    /\ (crossDays # DaysPending /\ Len(crossHist) >= 10 /\ crossCur[2] # 0) =>
          /\ Velocities(crossHist) = <<>> => crossDays = NoDays
          /\ (Velocities(crossHist) # <<>> /\ crossCur[1] * Velocity[1] >= 0)
                => crossDays = NoDays
          /\ (Velocities(crossHist) # <<>> /\ Velocity[1] # 0
              /\ ( Abs(crossCur[1] * Velocity[2]) * 2 < Abs(crossCur[2] * Velocity[1])
                   \/ Abs(crossCur[1] * Velocity[2]) > 5 * Abs(crossCur[2] * Velocity[1]) ))
                => crossDays = NoDays

C24_Witness ==
    /\ Reported
    /\ Len(Velocities(crossHist)) = 2
    /\ crossCur = <<-1, 50>>
    /\ crossDays = <<1, 2>>

C24_WitnessAway ==
    /\ crossDays = NoDays
    /\ Len(crossHist) >= 10
    /\ Velocities(crossHist) # <<>>
    /\ crossCur[1] * Velocity[1] > 0

----------------------------------------------------------------------------
\* The decision rule of detect_stage between its last four labels.

\* The series classified, and whether the search of lines 131-134 found a
\* zero-crossing for it.
Classified == DropNa(hist)
CrossFound == \E i \in SearchRange(Len(Classified), lookback) : CrossAt(Classified, i)

\* The start of the window: the bar just after the most recent crossing found.
AfterCross ==
    1 + CHOOSE i \in SearchRange(Len(Classified), lookback) :
            /\ CrossAt(Classified, i)
            /\ \A j \in SearchRange(Len(Classified), lookback) :
                  CrossAt(Classified, j) => j <= i

NoFinalCross ==
    /\ ~(RLt(PrevBar, R(0)) /\ RLe(R(0), LastBar))
    /\ ~(RLt(R(0), PrevBar) /\ RLe(LastBar, R(0)))

\* C25: for a series of 3 or more values with no cross at the final bar and
\* the window running from just after the most recent zero-crossing found in
\* the lookback to the end, whatever its length: when last < 0, Troughing is
\* returned exactly when the window's minimum is not the final element and
\* the least-squares slope from that minimum to the end is positive, and
\* Falling below Zero otherwise; when last >= 0, the mirror rule decides
\* Peaking versus Rising above Zero.
C25_DecisionRule ==
    (stage # "pending" /\ Present(hist) >= 3 /\ NoFinalCross /\ CrossFound) =>
        IF RLt(LastBar, R(0))
        THEN stage = (IF /\ IdxMin(Classified, AfterCross) < Len(Classified) - 1
                         /\ RLt(R(0), Slope(Classified, IdxMin(Classified, AfterCross)))
                      THEN "1. Troughing" ELSE "6. Falling below Zero")
        ELSE stage = (IF /\ IdxMax(Classified, AfterCross) < Len(Classified) - 1
                         /\ RLt(Slope(Classified, IdxMax(Classified, AfterCross)), R(0))
                      THEN "4. Peaking" ELSE "3. Rising above Zero")

----------------------------------------------------------------------------
\* The tiers of the comparison pair in scan_and_fix.

TcbsOf(tbl, t) == {x \in tbl : x.ticker = t /\ x.source = "tcbs"}
LocalOf(tbl, t) == {x \in tbl : x.ticker = t /\ x.source # "tcbs"}

\* The ticker has a non-null latest tcbs close.
HasTcbsClose(tbl, t) ==
    /\ TcbsOf(tbl, t) # {}
    /\ \A x \in TcbsOf(tbl, t) :
          (\A y \in TcbsOf(tbl, t) : y.date <= x.date) => x.close[2] # 0

\* The latest row of another source has a close and lies within 7 days of
\* the latest tcbs row.
RecentLocalClose(tbl, t) ==
    \E l \in LocalOf(tbl, t), c \in TcbsOf(tbl, t) :
        /\ \A y \in LocalOf(tbl, t) : y.date <= l.date
        /\ \A y \in TcbsOf(tbl, t) : y.date <= c.date
        /\ l.close[2] # 0
        /\ l.date - c.date <= 7 /\ c.date - l.date <= 7

\* Both sides hold a close dated within the trailing 60 days.
BothMedians(tbl, t) ==
    /\ \E x \in TcbsOf(tbl, t) : x.date >= today - 60 /\ x.close[2] # 0
    /\ \E x \in LocalOf(tbl, t) : x.date >= today - 60 /\ x.close[2] # 0

MethodOf(t) == Comparison(scan.pre, t, refdb, today).method
RefOf(t) == Comparison(scan.pre, t, refdb, today).ref

\* C26: for every ticker with a non-null latest tcbs close the method is
\* 'latest_close' exactly when the latest row of another source has a close
\* and lies within 7 days of the latest tcbs date; otherwise it is
\* 'median_fallback' when both trailing-60-day medians exist; 'ref_db_latest'
\* is used only when no same-store reference was obtained; and a ticker for
\* which no tier yields a positive reference gets no fix and no change.
C26_TierOrder ==
    scan # NoScan =>
        \A t \in Tickers : HasTcbsClose(scan.pre, t) =>
            /\ MethodOf(t) = "latest_close" <=> RecentLocalClose(scan.pre, t)
            /\ (~RecentLocalClose(scan.pre, t) /\ BothMedians(scan.pre, t))
                  => MethodOf(t) = "median_fallback"
            /\ MethodOf(t) = "ref_db_latest"
                  => ~RecentLocalClose(scan.pre, t) /\ ~BothMedians(scan.pre, t)
            /\ (RefOf(t)[2] = 0 \/ RefOf(t)[1] <= 0) =>
                  /\ \A k \in 1..Len(scan.fixes) : scan.fixes[k][1] # t
                  /\ TcbsOf(store, t) = TcbsOf(scan.pre, t)
                  /\ LocalOf(store, t) = LocalOf(scan.pre, t)
            /\ \A k \in 1..Len(scan.fixes) :
                  scan.fixes[k][1] = t => scan.fixes[k][6] = MethodOf(t)

----------------------------------------------------------------------------
\* The detection of fetch_and_scale beside _detect_scale, on the same pair
\* of a fetched close median and a local reference median, both positive.

AgreeInputs == {p \in PriceValues : RLt(R(0), p)} \X PosRefs

\* Lines 321-334 of fetch_and_scale: scale_to_apply, 0 for None.
FetchDetect ==
    /\ detFetch = FetchPending
    /\ detFetch' = ScaleToApply(detIn[1], detIn[2])
    /\ UNCHANGED <<detIn, detOut, upsertVars, scanVars, fetchVars, adminVars,
                   stageVars, viewVars>>

InitAgree ==
    /\ ViewParked
    /\ detIn \in AgreeInputs
    /\ detOut = Pending
    /\ detFetch = FetchPending
    /\ UpsertParked
    /\ ScanParked
    /\ FetchParked

NextAgree == Detect \/ FetchDetect

SpecAgree == InitAgree /\ [][NextAgree]_vars

\* C27: for a fetched close median m > 0 and a local reference median
\* r > 0, fetch_and_scale applies scale c exactly when _detect_scale(m, r) is
\* (c, 'divide'), and applies no scale exactly when _detect_scale(m, r) does
\* not return 'divide'.
C27_FetchAgreesWithDetect ==
    (detOut # Pending /\ detFetch # FetchPending) =>
        /\ \A c \in {1000, 100, 10, 10000} :
              detFetch = c <=> detOut = [scale |-> c, op |-> "divide"]
        /\ detFetch = 0 <=> detOut.op # "divide"

C27_Witness ==
    /\ detIn = <<R(1199 * 25), R(25)>>
    /\ detFetch = 1000
    /\ detOut = [scale |-> 1000, op |-> "divide"]

C27_WitnessNone ==
    /\ detIn[1] = RMul(detIn[2], R(1200))
    /\ detFetch = 0
    /\ detOut = NoScale

----------------------------------------------------------------------------
\* Pacing of the bulk runs.

\* C28: in every bulk fetch run of either kind a pacing delay elapses between
\* any two consecutive remote fetches, also after a ticker whose fetch
\* returned no data and after a ticker whose processing failed.
C28_PacedFetches ==
    \A i \in 1..(Len(bulk.trace) - 1) :
        ~(bulk.trace[i] = "fetch" /\ bulk.trace[i + 1] = "fetch")

----------------------------------------------------------------------------
\* _detect_scale on stored values, inside scan_and_fix.

\* C29: _detect_scale does not raise for a price_median >= 0, 0 included, and
\* a ref_median > 0, so scan_and_fix always finishes scanning all tickers and
\* never stops part-way after it committed corrections for earlier tickers.
C29_DetectNeverRaises ==
    scan # NoScan =>
        /\ ~scan.raised
        /\ \A t \in Tickers :
              (HasTcbsClose(scan.pre, t) /\ RefOf(t)[2] # 0 /\ RefOf(t)[1] > 0)
                  => DetectScale(Comparison(scan.pre, t, refdb, today).obs, RefOf(t)).op
                        \in {"divide", "multiply", "none"}

----------------------------------------------------------------------------
\* scan_and_fix run twice.

FixedBy(s, t) == \E k \in 1..Len(s.fixes) : s.fixes[k][1] = t

\* C30: after scan_and_fix with dry_run=False corrected a ticker, a scan that
\* follows at once on the resulting store with the same reference data and
\* the same since_date reports no mismatch for that ticker and changes none
\* of its rows, for every since_date and each comparison method.
C30_NoSecondCorrection ==
    (nscans = 2 /\ ~scanPrev.dry /\ scan.since = scanPrev.since) =>
        \A t \in Tickers : FixedBy(scanPrev, t) =>
            /\ ~FixedBy(scan, t)
            /\ TcbsOf(store, t) = TcbsOf(scan.pre, t)
            /\ LocalOf(store, t) = LocalOf(scan.pre, t)

====
